---- MODULE Spec2Model ----
(***************************************************************************)
(* Model of the device command execution layer (src/adb-wrapper.js).       *)
(*                                                                         *)
(* Text is a sequence of atoms.  An atom is either one character that a    *)
(* caller controls (a letter, a single quote, a space, a semicolon, a      *)
(* backslash, a digit, a tab, a newline) or a fixed piece of text written  *)
(* in the source, which contains none of those special characters unless   *)
(* it is spelled out atom by atom.                                         *)
(*                                                                         *)
(* JavaScript values are records with a type tag t:                        *)
(*   [t |-> "string", s |-> text], [t |-> "number", k |-> kind, v |-> n],  *)
(*   [t |-> "null"], [t |-> "boolean", b |-> ...].                         *)
(*   [t |-> "undefined"], [t |-> "object", ...].                           *)
(* A finite number is the fraction n/d with d > 0.                         *)
(***************************************************************************)
EXTENDS Integers, Sequences, FiniteSets, TLC

VARIABLES
    deviceId,    \* this.deviceId: Null or a text
    screenSize,  \* this.screenSize: Null or [width, height]
    pc,          \* where the caller's current operation is suspended
    op,          \* the operation being run (or last run) and its arguments
    stage,       \* the await of the operation the caller is suspended at
    cur,         \* the command handed to executeCommand that is in flight
    fan,         \* the concurrent executeCommand calls of a Promise.all, each
                 \* with its command, the place of its process start in the
                 \* trace, and what its promise settled to
    trace,       \* the current call's events, process starts and ends, how
                 \* each executeCommand settled, file-system calls and timers
    result,      \* outcome of the last call that finished
    pre,         \* the session fields when the current call started
    arg,         \* input of the pure function under study
    ret,         \* its output
    autoBuyEnabled, \* process.env.AUTO_BUY_ENABLED === 'true'
    urls,        \* the purchase list of the web server: items in list order
    activeTimers,   \* activeTimers: list index -> handle of a timeout
    timeouts,    \* the timeouts set and neither fired nor cleared
    flows,       \* the triggerPurchase calls suspended at handler.buyItem
    log,         \* the purchases of listed URLs started so far, in no order,
                 \* and whether a rejection went unhandled
    res,         \* the response to the last request
    nextId       \* the handle the next timeout gets

scheduler == <<autoBuyEnabled, urls, activeTimers, timeouts, flows, log, res, nextId>>

vars == <<deviceId, screenSize, pc, op, stage, cur, fan, trace, result, pre, arg, ret,
          scheduler>>

\* the web server before it is started
NoServer ==
    /\ autoBuyEnabled = FALSE
    /\ urls = <<>>
    /\ activeTimers = {}
    /\ timeouts = {}
    /\ flows = {}
    /\ log = {}
    /\ res = [status |-> 0]
    /\ nextId = 1

session == <<deviceId, screenSize>>

(***************************************************************************)
(* Bounds of the model.                                                    *)
(***************************************************************************)
MaxLen == 1      \* longest caller-supplied text an operation is called with
MaxArgLen == 3   \* longest text the sanitizer is studied on
MaxLines == 2    \* most device lines after the header of `adb devices`

(***************************************************************************)
(* Text.                                                                   *)
(***************************************************************************)
SQ == "'"
BS == "\\"
SP == " "
SEMI == ";"
NL == "\n"
TAB == "\t"

Chars == {"a", SQ, SP, SEMI, BS}

RECURSIVE TextsOfLen(_)
TextsOfLen(n) ==
    IF n = 0 THEN {<<>>}
    ELSE {<<c>> \o t : c \in Chars, t \in TextsOfLen(n - 1)}

Texts == UNION {TextsOfLen(n) : n \in 0..MaxLen}

ArgTexts == UNION {TextsOfLen(n) : n \in 0..MaxArgLen}

Null == [t |-> "null"]
Undefined == [t |-> "undefined"]
Str(s) == [t |-> "string", s |-> s]
Num(n, d) == [t |-> "number", k |-> "finite", n |-> n, d |-> d]
Whole(n) == Num(n, 1)
NaN == [t |-> "number", k |-> "NaN"]
PosInfinity == [t |-> "number", k |-> "Infinity"]

IsString(x) == x.t = "string"

\* String.prototype.replace(/c/g, by): every atom c replaced by the text by
RECURSIVE ReplaceAll(_, _, _)
ReplaceAll(s, c, by) ==
    IF s = <<>> THEN <<>>
    ELSE (IF Head(s) = c THEN by ELSE <<Head(s)>>) \o ReplaceAll(Tail(s), c, by)

\* String.prototype.includes
Includes(s, sub) ==
    \E i \in 0..(Len(s) - Len(sub)) : SubSeq(s, i + 1, i + Len(sub)) = sub

(***************************************************************************)
(* Outcomes of a call: a value, or a thrown error.                         *)
(***************************************************************************)
Ok(v) == [st |-> "ok", v |-> v]
Thrown(e) == [st |-> "err", e |-> e]
NoResult == [st |-> "none"]

\* new Error(message)
Error(message) == [name |-> "Error", message |-> message]

\* class ADBError: message, command, originalError
ADBError(message, command, originalError) ==
    [name |-> "ADBError", message |-> message, command |-> command,
     originalError |-> originalError]

(***************************************************************************)
(* Validation utilities.                                                   *)
(***************************************************************************)
\* validatePositiveNumber without its isFinite test
NotPositiveNumberNoFiniteTest(value) ==
    \/ value.t # "number"
    \/ (value.k = "finite" /\ value.n < 0)

\* the condition under which validatePositiveNumber throws
NotPositiveNumber(value) ==
    \/ value.t # "number"
    \/ (value.k = "finite" /\ value.n < 0)   \* value < 0
    \/ value.k # "finite"                    \* !isFinite(value)

validatePositiveNumber(value, name) ==
    IF NotPositiveNumber(value)
    THEN Thrown(Error(<<name, " must be a positive number">>))
    ELSE Ok(Null)

validateCoordinate(x, y) ==
    IF validatePositiveNumber(x, "x coordinate").st = "err"
    THEN validatePositiveNumber(x, "x coordinate")
    ELSE validatePositiveNumber(y, "y coordinate")

(***************************************************************************)
(* Argument sanitizer.                                                     *)
(***************************************************************************)
sanitizeShellArg(a) ==
    IF ~IsString(a)
    THEN Thrown(Error(<<"Argument must be a string">>))
    ELSE Ok(<<SQ>> \o ReplaceAll(a.s, SQ, <<SQ, BS, SQ, SQ>>) \o <<SQ, SEMI>>)

\* sanitizeShellArg of a text known to be a string
Quoted(s) == sanitizeShellArg(Str(s)).v

(***************************************************************************)
(* The shell that child_process.exec hands the command line to: splits     *)
(* the line into commands (at ; and newline) and each command into words   *)
(* (at blanks), with single quotes and backslash quoting.                  *)
(***************************************************************************)
RECURSIVE ShScan(_, _, _, _, _, _, _)
ShScan(s, i, mode, word, inWord, words, cmds) ==
    LET endWord == IF inWord THEN Append(words, word) ELSE words
        endCmd == IF endWord = <<>> THEN cmds ELSE Append(cmds, endWord)
    IN  IF i > Len(s)
        THEN [closed |-> mode = "plain", cmds |-> endCmd]
        ELSE LET c == s[i] IN
             CASE mode = "quote" /\ c = SQ ->
                    ShScan(s, i + 1, "plain", word, TRUE, words, cmds)
               [] mode = "quote" /\ c # SQ ->
                    ShScan(s, i + 1, "quote", Append(word, c), TRUE, words, cmds)
               [] mode = "escape" ->
                    ShScan(s, i + 1, "plain", Append(word, c), TRUE, words, cmds)
               [] mode = "plain" /\ c = SQ ->
                    ShScan(s, i + 1, "quote", word, TRUE, words, cmds)
               [] mode = "plain" /\ c = BS ->
                    ShScan(s, i + 1, "escape", word, TRUE, words, cmds)
               [] mode = "plain" /\ c \in {SP, TAB} ->
                    ShScan(s, i + 1, "plain", <<>>, FALSE, endWord, cmds)
               [] mode = "plain" /\ c \in {SEMI, NL} ->
                    ShScan(s, i + 1, "plain", <<>>, FALSE, <<>>, endCmd)
               [] OTHER ->
                    ShScan(s, i + 1, "plain", Append(word, c), TRUE, words, cmds)

ShellParse(line) == ShScan(line, 1, "plain", <<>>, FALSE, <<>>, <<>>)

(***************************************************************************)
(* More text functions of the JavaScript library.                          *)
(***************************************************************************)
Blank == {SP, TAB, NL}

\* String.prototype.trim
RECURSIVE TrimLeft(_)
TrimLeft(s) ==
    IF s # <<>> /\ Head(s) \in Blank THEN TrimLeft(Tail(s)) ELSE s

RECURSIVE TrimRight(_)
TrimRight(s) ==
    IF s # <<>> /\ s[Len(s)] \in Blank
    THEN TrimRight(SubSeq(s, 1, Len(s) - 1)) ELSE s

Trim(s) == TrimRight(TrimLeft(s))

\* String.prototype.split(sep) for a one-atom separator: never empty
RECURSIVE SplitFrom(_, _, _, _)
SplitFrom(s, sep, i, piece) ==
    IF i > Len(s) THEN <<piece>>
    ELSE IF s[i] = sep
         THEN <<piece>> \o SplitFrom(s, sep, i + 1, <<>>)
         ELSE SplitFrom(s, sep, i + 1, Append(piece, s[i]))

Split(s, sep) == SplitFrom(s, sep, 1, <<>>)

Digits == {"0", "1", "2", "3", "4", "5", "6", "7", "8", "9"}

DigitValue(c) ==
    CASE c = "0" -> 0 [] c = "1" -> 1 [] c = "2" -> 2 [] c = "3" -> 3
      [] c = "4" -> 4 [] c = "5" -> 5 [] c = "6" -> 6 [] c = "7" -> 7
      [] c = "8" -> 8 [] c = "9" -> 9

\* parseInt of a text made of digits only
RECURSIVE ParseDigits(_, _)
ParseDigits(s, acc) ==
    IF s = <<>> THEN acc
    ELSE ParseDigits(Tail(s), acc * Cardinality(Digits) + DigitValue(Head(s)))

\* parseInt(s) on text without a radix prefix: blanks skipped, an optional
\* sign, then the leading digits; NaN when there is none
ParseInt(s) ==
    LET t == TrimLeft(s)
        signed == t # <<>> /\ Head(t) \in {"-", "+"}
        body == IF signed THEN Tail(t) ELSE t
    IN  IF body = <<>> \/ Head(body) \notin Digits THEN NaN
        ELSE LET run == SubSeq(body, 1,
                     CHOOSE j \in 1..Len(body) :
                         /\ \A m \in 1..j : body[m] \in Digits
                         /\ (j = Len(body) \/ body[j + 1] \notin Digits))
             IN  IF signed /\ Head(t) = "-"
                 THEN Whole(0 - ParseDigits(run, 0))
                 ELSE Whole(ParseDigits(run, 0))

\* rounding to the nearest integer instead
FloorRounds(x) == (2 * x.n + x.d) \div (2 * x.d)

\* Math.floor of a finite number, and the text a template literal makes of it
Floor(x) == x.n \div x.d
FloorText(x) ==
    IF x.t = "number" /\ x.k = "finite" THEN <<ToString(Floor(x))>>
    ELSE IF x.t = "number" THEN <<x.k>>
    ELSE <<"NaN">>

\* truthiness of the values the model passes around
Truthy(x) ==
    CASE x.t \in {"null", "undefined"} -> FALSE
      [] x.t = "string" -> x.s # <<>>
      [] x.t = "number" -> ~(x.k = "NaN" \/ (x.k = "finite" /\ x.n = 0))
      [] x.t = "boolean" -> x.b
      [] OTHER -> TRUE

(***************************************************************************)
(* Command Executor.                                                       *)
(***************************************************************************)
\* the command line without the device flag, whatever the session holds
fullCommandUnaddressed(dev, command) == <<"adb", SP>> \o command

\* executeCommand: the resolved command line
fullCommand(dev, command) ==
    IF Truthy(dev)
    THEN <<"adb", SP, "-s", SP>> \o dev.s \o <<SP>> \o command
    ELSE <<"adb", SP>> \o command

\* the process started before the event is emitted
dispatchStartsFirst(dev, command, shell) ==
    << [k |-> "exec", v |-> (IF Truthy(dev)
                             THEN <<"adb", SP, "-s", SP>> \o dev.s \o <<SP>> \o command
                             ELSE <<"adb", SP>> \o command),
        command |-> command, shell |-> shell],
       [k |-> "command_executed",
        v |-> (IF Truthy(dev)
               THEN <<"adb", SP, "-s", SP>> \o dev.s \o <<SP>> \o command
               ELSE <<"adb", SP>> \o command)] >>

\* executeCommand up to its await: the event, then the process is started.
\* shell is the text executeShell was given, when the command came from it.
dispatch(dev, command, shell) ==
    << [k |-> "command_executed", v |-> fullCommand(dev, command)],
       [k |-> "exec", v |-> fullCommand(dev, command), command |-> command,
        shell |-> shell] >>

\* what the external process can do: out is { stdout, stderr }, or the error
\* execAsync rejects with
Succeeded(stdout, stderr) == [ok |-> TRUE, stdout |-> stdout, stderr |-> stderr]
Failed(cause) == [ok |-> FALSE, error |-> Error(<<cause>>)]

\* executeCommand rethrowing the low-level error it caught
settleRethrows(command, out) ==
    IF out.ok
    THEN [emit |-> IF out.stderr # <<>> /\ ~Includes(out.stderr, <<"WARNING">>)
                   THEN << [k |-> "warning", v |-> out.stderr] >>
                   ELSE <<>>,
          r |-> Ok(Trim(out.stdout))]
    ELSE [emit |-> << [k |-> "error",
                       v |-> ADBError(<<"Failed to execute ADB command: ">>
                                      \o out.error.message, command, out.error)] >>,
          r |-> Thrown(out.error)]

\* executeCommand that reports every non-empty stderr
settleWarnsAlways(command, out) ==
    IF out.ok
    THEN [emit |-> IF out.stderr # <<>>
                   THEN << [k |-> "warning", v |-> out.stderr] >>
                   ELSE <<>>,
          r |-> Ok(Trim(out.stdout))]
    ELSE [emit |-> << [k |-> "error",
                       v |-> ADBError(<<"Failed to execute ADB command: ">>
                                      \o out.error.message, command, out.error)] >>,
          r |-> Thrown(ADBError(<<"Failed to execute ADB command: ">>
                                \o out.error.message, command, out.error))]

\* executeCommand after its await: events emitted and the value returned or
\* the error thrown
settle(command, out) ==
    IF out.ok
    THEN [emit |-> IF out.stderr # <<>> /\ ~Includes(out.stderr, <<"WARNING">>)
                   THEN << [k |-> "warning", v |-> out.stderr] >>
                   ELSE <<>>,
          r |-> Ok(Trim(out.stdout))]
    ELSE LET adbError == ADBError(
                 <<"Failed to execute ADB command: ">> \o out.error.message,
                 command, out.error)
         IN  [emit |-> << [k |-> "error", v |-> adbError] >>,
              r |-> Thrown(adbError)]

(***************************************************************************)
(* What an operation does next: start a command, a file-system call or a   *)
(* timer and suspend at a stage, start several commands at once and wait   *)
(* for all of them, or finish with a result.  dev and size are the session *)
(* fields after the step, emit the events of the step.                     *)
(***************************************************************************)
Done(r) ==
    [do |-> "done", stage |-> "-", command |-> <<>>, shell |-> <<>>, res |-> r,
     dev |-> deviceId, size |-> screenSize, emit |-> <<>>, branches |-> <<>>]

Exec(stg, command) ==
    [Done(NoResult) EXCEPT !.do = "exec", !.stage = stg, !.command = command]

\* executeShell(command): sanitize, then executeCommand
executeShell(stg, command) ==
    IF sanitizeShellArg(command).st = "err"
    THEN Done(sanitizeShellArg(command))
    ELSE [Exec(stg, <<"shell", SP>> \o sanitizeShellArg(command).v)
            EXCEPT !.shell = command.s]

Fs(stg, call, path) ==
    [Done(NoResult) EXCEPT !.do = "fs", !.stage = stg, !.command = <<call, SP>> \o path]

Timer(stg) ==
    [Done(NoResult) EXCEPT !.do = "timer", !.stage = stg]

(***************************************************************************)
(* Device Session: discovery and connection.                               *)
(***************************************************************************)
\* one line of the device list: { id: parts[0], status: parts[1] || 'unknown' }
DeviceRecord(line) ==
    LET parts == Split(line, TAB)
    IN  [id |-> Trim(parts[1]),
         status |-> IF Len(parts) >= 2 /\ Trim(parts[2]) # <<>>
                    THEN Trim(parts[2]) ELSE <<"unknown">>]

RECURSIVE DeviceRecords(_)
DeviceRecords(lines) ==
    IF lines = <<>> THEN <<>>
    ELSE (IF Trim(Head(lines)) # <<>> THEN <<DeviceRecord(Head(lines))>> ELSE <<>>)
         \o DeviceRecords(Tail(lines))

\* a parse that takes the first line for a device too
ParseDevicesWithHeader(output) == DeviceRecords(Split(output, NL))

\* getDevices after executeCommand('devices') returned output
ParseDevices(output) == DeviceRecords(Tail(Split(output, NL)))

getDevicesStart == Exec("devices", <<"devices">>)

getDevicesResume(r) ==
    IF r.st = "err" THEN Done(r) ELSE Done(Ok(ParseDevices(r.v)))

autoConnectStart == getDevicesStart

\* find that takes the first record whatever its status
FindFirst(devices) ==
    IF devices = <<>> THEN Undefined
    ELSE [t |-> "object", id |-> devices[1].id]

\* devices.find(d => d.status === 'device')
FindActive(devices) ==
    LET hits == {i \in 1..Len(devices) : devices[i].status = <<"device">>}
    IN  IF hits = {} THEN Undefined
        ELSE [t |-> "object",
              id |-> devices[CHOOSE i \in hits : \A j \in hits : i <= j].id]

\* autoConnect that sets the target without announcing it
autoConnectResumeSilent(r) ==
    IF r.st = "err" THEN Done(r)
    ELSE LET devices == ParseDevices(r.v)
             activeDevice == FindActive(devices)
         IN  IF Len(devices) = 0
             THEN Done(Thrown(Error(<<"No devices found">>)))
             ELSE IF Truthy(activeDevice)
             THEN [Done(Ok(Str(activeDevice.id))) EXCEPT
                      !.dev = Str(activeDevice.id)]
             ELSE Done(Thrown(Error(<<"No authorized devices found">>)))

\* autoConnect that targets the first listed device before it finds that
\* none is authorized
autoConnectResumeGrabs(r) ==
    IF r.st = "err" THEN Done(r)
    ELSE LET devices == ParseDevices(r.v)
             activeDevice == FindActive(devices)
         IN  IF Len(devices) = 0
             THEN Done(Thrown(Error(<<"No devices found">>)))
             ELSE IF Truthy(activeDevice)
             THEN [Done(Ok(Str(activeDevice.id))) EXCEPT
                      !.dev = Str(activeDevice.id),
                      !.emit = << [k |-> "connected", v |-> Str(activeDevice.id)] >>]
             ELSE [Done(Thrown(Error(<<"No authorized devices found">>))) EXCEPT
                      !.dev = Str(devices[1].id)]

autoConnectResume(r) ==
    IF r.st = "err" THEN Done(r)
    ELSE LET devices == ParseDevices(r.v)
             activeDevice == FindActive(devices)
         IN  IF Len(devices) = 0
             THEN Done(Thrown(Error(<<"No devices found">>)))
             ELSE IF Truthy(activeDevice)
             THEN [Done(Ok(Str(activeDevice.id))) EXCEPT
                      !.dev = Str(activeDevice.id),
                      !.emit = << [k |-> "connected", v |-> Str(activeDevice.id)] >>]
             ELSE Done(Thrown(Error(<<"No authorized devices found">>)))

\* getDeviceInfo up to its await: the four queries are started one after the
\* other, each running executeCommand up to its own await
getDeviceInfoStart ==
    [Done(NoResult) EXCEPT
        !.do = "all", !.stage = "getprop",
        !.branches =
            << executeShell("getprop", Str(<<"getprop ro.product.manufacturer">>)),
               executeShell("getprop", Str(<<"getprop ro.product.model">>)),
               executeShell("getprop", Str(<<"getprop ro.build.version.release">>)),
               executeShell("getprop", Str(<<"getprop ro.build.version.sdk">>)) >>]

\* a failed query that leaves its field empty
getDeviceInfoCatchEmpty(r) == IF r.st = "err" THEN Ok(<<>>) ELSE r

\* .catch(() => 'unknown') on one query
getDeviceInfoCatch(r) == IF r.st = "err" THEN Ok(<<"unknown">>) ELSE r

\* getDeviceInfo after Promise.all resolved with the four values
getDeviceInfoResume(rs) ==
    Done(Ok([t |-> "object",
             manufacturer |-> Trim(rs[1].v),
             model |-> Trim(rs[2].v),
             androidVersion |-> Trim(rs[3].v),
             sdkVersion |-> IF Truthy(ParseInt(rs[4].v))
                            THEN ParseInt(rs[4].v) ELSE Whole(0),
             deviceId |-> deviceId]))

(***************************************************************************)
(* Screen geometry.                                                        *)
(***************************************************************************)
\* end of the run of digits that starts at i
RunEnd(s, i) ==
    CHOOSE j \in i..Len(s) :
        /\ \A m \in i..j : s[m] \in Digits
        /\ (j = Len(s) \/ s[j + 1] \notin Digits)

\* output.match(/(\d+)x(\d+)/): the leftmost match, its two groups parsed
MatchSize(s) ==
    LET starts == {i \in 1..Len(s) :
                     /\ s[i] \in Digits
                     /\ RunEnd(s, i) + 2 <= Len(s)
                     /\ s[RunEnd(s, i) + 1] = "x"
                     /\ s[RunEnd(s, i) + 2] \in Digits}
        i == CHOOSE a \in starts : \A b \in starts : a <= b
        j == RunEnd(s, i)
    IN  IF starts = {} THEN Null
        ELSE [t |-> "object",
              width |-> ParseDigits(SubSeq(s, i, j), 0),
              height |-> ParseDigits(SubSeq(s, j + 2, RunEnd(s, j + 2)), 0)]

\* getScreenSize that never looks at its cache
getScreenSizeStartUncached(refresh) == executeShell("size", Str(<<"wm size">>))

getScreenSizeStart(refresh) ==
    IF Truthy(screenSize) /\ ~refresh
    THEN Done(Ok(screenSize))
    ELSE executeShell("size", Str(<<"wm size">>))

\* getScreenSize that forgets its geometry when the answer cannot be parsed
getScreenSizeResumeForgets(r) ==
    IF r.st = "err" THEN Done(r)
    ELSE IF Truthy(MatchSize(r.v))
         THEN [Done(Ok(MatchSize(r.v))) EXCEPT !.size = MatchSize(r.v)]
         ELSE [Done(Thrown(Error(<<"Failed to parse screen size">>)))
                  EXCEPT !.size = Null]

getScreenSizeResume(r) ==
    IF r.st = "err" THEN Done(r)
    ELSE IF Truthy(MatchSize(r.v))
         THEN [Done(Ok(MatchSize(r.v))) EXCEPT !.size = MatchSize(r.v)]
         ELSE Done(Thrown(Error(<<"Failed to parse screen size">>)))

(***************************************************************************)
(* Input simulation.                                                       *)
(***************************************************************************)
DefaultSwipeDuration == 300
DefaultScrollDuration == 400

tapStart(x, y) ==
    IF validateCoordinate(x, y).st = "err"
    THEN Done(validateCoordinate(x, y))
    ELSE executeShell("tap",
             Str(<<"input tap ">> \o FloorText(x) \o <<SP>> \o FloorText(y)))

swipeStart(x1, y1, x2, y2, d) ==
    LET duration == IF d.t = "undefined" THEN Whole(DefaultSwipeDuration) ELSE d
    IN  IF validateCoordinate(x1, y1).st = "err"
        THEN Done(validateCoordinate(x1, y1))
        ELSE IF validateCoordinate(x2, y2).st = "err"
        THEN Done(validateCoordinate(x2, y2))
        ELSE IF validatePositiveNumber(duration, "duration").st = "err"
        THEN Done(validatePositiveNumber(duration, "duration"))
        ELSE executeShell("swipe",
                 Str(<<"input swipe ">> \o FloorText(x1) \o <<SP>> \o FloorText(y1)
                     \o <<SP>> \o FloorText(x2) \o <<SP>> \o FloorText(y2)
                     \o <<SP>> \o FloorText(duration)))

\* a scroll along the right edge of the screen
scrollSwipeAtEdge(dir, screen, d) ==
    LET duration == IF d.t = "undefined" THEN Whole(DefaultScrollDuration) ELSE d
        far == Whole(Floor(Num(screen.height * 8, 10)))
        near == Whole(Floor(Num(screen.height * 2, 10)))
        edgeX == Whole(screen.width)
    IN  IF dir = "down"
        THEN swipeStart(edgeX, far, edgeX, near, duration)
        ELSE swipeStart(edgeX, near, edgeX, far, duration)

\* scrollDown / scrollUp once the geometry is known
scrollSwipe(dir, screen, d) ==
    LET duration == IF d.t = "undefined" THEN Whole(DefaultScrollDuration) ELSE d
        far == Whole(Floor(Num(screen.height * 8, 10)))     \* height * 0.8
        near == Whole(Floor(Num(screen.height * 2, 10)))    \* height * 0.2
        centerX == Whole(Floor(Num(screen.width, 2)))
    IN  IF dir = "down"
        THEN swipeStart(centerX, far, centerX, near, duration)
        ELSE swipeStart(centerX, near, centerX, far, duration)

\* the rest of scrollDown / scrollUp after `await this.getScreenSize()`:
\* got is how getScreenSize ended; its writes and events stay, and the swipe
\* (which writes no session field) follows when it returned a geometry
scrollAfterSize(dir, d, got) ==
    IF got.do = "done" /\ got.res.st = "ok"
    THEN [scrollSwipe(dir, got.res.v, d) EXCEPT
             !.dev = got.dev, !.size = got.size, !.emit = got.emit \o @]
    ELSE got

scrollStart(dir, d) == scrollAfterSize(dir, d, getScreenSizeStart(FALSE))

scrollResume(dir, d, stg, r) ==
    IF stg = "size"
    THEN scrollAfterSize(dir, d, getScreenSizeResume(r))
    ELSE Done(r)

waitStart(ms) ==
    IF validatePositiveNumber(ms, "wait time").st = "err"
    THEN Done(validatePositiveNumber(ms, "wait time"))
    ELSE Timer("wait")

keyEventStart(code) == executeShell("key", Str(<<"input keyevent ", code>>))

typeTextStart(text) ==
    IF text.t # "string"
    THEN Done(Thrown(Error(<<"Text must be a string">>)))
    ELSE executeShell("typeText",
             Str(<<"input text ">>
                 \o sanitizeShellArg(Str(ReplaceAll(text.s, SP, <<"%s">>))).v))

(***************************************************************************)
(* App management.                                                         *)
(***************************************************************************)
openUrlStart(url) ==
    IF url.t # "string" \/ Trim(url.s) = <<>>
    THEN Done(Thrown(Error(<<"URL must be a non-empty string">>)))
    ELSE executeShell("openUrl",
             Str(<<"am start -a android.intent.action.VIEW -d ">>
                 \o sanitizeShellArg(url).v))

Letters ==
    {"a", "b", "c", "d", "e", "f", "g", "h", "i", "j", "k", "l", "m", "n", "o",
     "p", "q", "r", "s", "t", "u", "v", "w", "x", "y", "z",
     "A", "B", "C", "D", "E", "F", "G", "H", "I", "J", "K", "L", "M", "N", "O",
     "P", "Q", "R", "S", "T", "U", "V", "W", "X", "Y", "Z"}

\* [a-zA-Z0-9_]
WordChars == Letters \cup Digits \cup {"_"}

\* end of the longest run of [a-zA-Z0-9_] that starts at i
WordEnd(s, i) ==
    CHOOSE j \in i..Len(s) :
        /\ \A m \in i..j : s[m] \in WordChars
        /\ (j = Len(s) \/ s[j + 1] \notin WordChars)

\* end of the longest run of (?:\.[a-zA-Z][a-zA-Z0-9_]*) that follows j
RECURSIVE DottedEnd(_, _)
DottedEnd(s, j) ==
    IF j + 2 <= Len(s) /\ s[j + 1] = "." /\ s[j + 2] \in Letters
    THEN DottedEnd(s, WordEnd(s, j + 2))
    ELSE j

\* output.match(/[a-zA-Z][a-zA-Z0-9_]*(?:\.[a-zA-Z][a-zA-Z0-9_]*)+/): the
\* leftmost match, as long as it can be, and `match ? match[0] : null`
MatchPackage(s) ==
    LET starts == {i \in 1..Len(s) :
                     /\ s[i] \in Letters
                     /\ DottedEnd(s, WordEnd(s, i)) > WordEnd(s, i)}
        i == CHOOSE a \in starts : \A b \in starts : a <= b
    IN  IF starts = {} THEN Null
        ELSE Str(SubSeq(s, i, DottedEnd(s, WordEnd(s, i))))

\* a test for a dotted identifier anywhere in the text
IsPackageNameUnanchored(s) == MatchPackage(s) # Null

\* /^[a-z][a-z0-9_]*(?:\.[a-z][a-z0-9_]*)+$/i.test(s)
IsPackageName(s) ==
    /\ s # <<>>
    /\ s[1] \in Letters
    /\ DottedEnd(s, WordEnd(s, 1)) > WordEnd(s, 1)
    /\ DottedEnd(s, WordEnd(s, 1)) = Len(s)

validatePackageName(packageName) ==
    IF packageName.t # "string" \/ ~IsPackageName(packageName.s)
    THEN Thrown(Error(<<"Invalid package name format">>))
    ELSE Ok(Null)

forceStopStart(packageName) ==
    IF validatePackageName(packageName).st = "err"
    THEN Done(validatePackageName(packageName))
    ELSE executeShell("app", Str(<<"am force-stop ">> \o packageName.s))

launchAppStart(packageName) ==
    IF validatePackageName(packageName).st = "err"
    THEN Done(validatePackageName(packageName))
    ELSE executeShell("app", Str(<<"monkey -p ">> \o packageName.s
                                 \o <<" -c android.intent.category.LAUNCHER 1">>))

clearAppDataStart(packageName) ==
    IF validatePackageName(packageName).st = "err"
    THEN Done(validatePackageName(packageName))
    ELSE executeShell("app", Str(<<"pm clear ">> \o packageName.s))

getCurrentPackageStart ==
    executeShell("resumed",
        Str(<<"dumpsys activity activities | grep mResumedActivity">>))

\* getCurrentPackage that gives up when its first query fails
getCurrentPackageResumeNoFallback(stg, r) ==
    IF r.st = "err" THEN Done(Ok(Null)) ELSE Done(Ok(MatchPackage(r.v)))

\* getCurrentPackage that asks its first query again when it failed
getCurrentPackageResumeRetry(stg, r) ==
    CASE stg = "resumed" ->
           IF r.st = "err"
           THEN executeShell("focus",
                    Str(<<"dumpsys activity activities | grep mResumedActivity">>))
           ELSE Done(Ok(MatchPackage(r.v)))
      [] stg = "focus" ->
           IF r.st = "err" THEN Done(Ok(Null)) ELSE Done(Ok(MatchPackage(r.v)))

\* getCurrentPackage that also falls back when its first answer names nothing
getCurrentPackageResumeEager(stg, r) ==
    CASE stg = "resumed" ->
           IF r.st = "err" \/ MatchPackage(r.v) = Null
           THEN executeShell("focus", Str(<<"dumpsys window | grep mCurrentFocus">>))
           ELSE Done(Ok(MatchPackage(r.v)))
      [] stg = "focus" ->
           IF r.st = "err" THEN Done(Ok(Null)) ELSE Done(Ok(MatchPackage(r.v)))

getCurrentPackageResume(stg, r) ==
    CASE stg = "resumed" ->
           IF r.st = "err"
           THEN executeShell("focus", Str(<<"dumpsys window | grep mCurrentFocus">>))
           ELSE Done(Ok(MatchPackage(r.v)))
      [] stg = "focus" ->
           IF r.st = "err" THEN Done(Ok(Null)) ELSE Done(Ok(MatchPackage(r.v)))

(***************************************************************************)
(* Transfer operations.  Caller texts of the model hold no path separator  *)
(* and no dot, so path.join('./screenshots', name) is screenshots/name and *)
(* path.dirname(localPath) is '.'.                                         *)
(***************************************************************************)
screenshotDir == <<"./screenshots">>

DefaultFilename == <<"screenshot_", "1", ".png">>   \* `screenshot_${Date.now()}.png`

FilenameOf(filename) ==
    IF filename.t = "undefined" THEN DefaultFilename ELSE filename.s

remotePathOf(filename) == <<"/sdcard/">> \o FilenameOf(filename)

localPathOf(filename) ==
    IF FilenameOf(filename) = <<>> THEN <<"screenshots">>
    ELSE <<"screenshots", "/">> \o FilenameOf(filename)

Dirname(path) == <<".">>

takeScreenshotStart(filename, cleanup) == Fs("mkdir", "mkdir", screenshotDir)

\* takeScreenshot that fails when the remote copy cannot be deleted
takeScreenshotResumeStrict(filename, cleanup, stg, r) ==
    LET wrapped == Thrown(ADBError(<<"Failed to take screenshot">>, <<"screencap">>, r.e))
    IN  CASE stg = "mkdir" ->
               IF r.st = "err" THEN Done(r)
               ELSE executeShell("screencap",
                        Str(<<"screencap -p ">> \o remotePathOf(filename)))
          [] stg = "screencap" ->
               IF r.st = "err" THEN Done(wrapped)
               ELSE Exec("pull", <<"pull", SP>> \o remotePathOf(filename)
                                  \o <<SP>> \o localPathOf(filename))
          [] stg = "pull" ->
               IF r.st = "err" THEN Done(wrapped)
               ELSE IF cleanup
               THEN executeShell("rm", Str(<<"rm ">> \o remotePathOf(filename)))
               ELSE Done(Ok(Str(localPathOf(filename))))
          [] stg = "rm" ->
               IF r.st = "err" THEN Done(wrapped)
               ELSE Done(Ok(Str(localPathOf(filename))))

\* takeScreenshot without its try/catch: the error of the command goes out
takeScreenshotResumeUnwrapped(filename, cleanup, stg, r) ==
    CASE stg = "mkdir" ->
           IF r.st = "err" THEN Done(r)
           ELSE executeShell("screencap",
                    Str(<<"screencap -p ">> \o remotePathOf(filename)))
      [] stg = "screencap" ->
           IF r.st = "err" THEN Done(r)
           ELSE Exec("pull", <<"pull", SP>> \o remotePathOf(filename)
                              \o <<SP>> \o localPathOf(filename))
      [] stg = "pull" ->
           IF r.st = "err" THEN Done(r)
           ELSE IF cleanup
           THEN executeShell("rm", Str(<<"rm ">> \o remotePathOf(filename)))
           ELSE Done(Ok(Str(localPathOf(filename))))
      [] stg = "rm" -> Done(Ok(Str(localPathOf(filename))))

takeScreenshotResume(filename, cleanup, stg, r) ==
    LET wrapped == Thrown(ADBError(<<"Failed to take screenshot">>, <<"screencap">>, r.e))
    IN  CASE stg = "mkdir" ->
               IF r.st = "err" THEN Done(r)
               ELSE executeShell("screencap",
                        Str(<<"screencap -p ">> \o remotePathOf(filename)))
          [] stg = "screencap" ->
               IF r.st = "err" THEN Done(wrapped)
               ELSE Exec("pull", <<"pull", SP>> \o remotePathOf(filename)
                                  \o <<SP>> \o localPathOf(filename))
          [] stg = "pull" ->
               IF r.st = "err" THEN Done(wrapped)
               ELSE IF cleanup
               THEN executeShell("rm", Str(<<"rm ">> \o remotePathOf(filename)))
               ELSE Done(Ok(Str(localPathOf(filename))))
          [] stg = "rm" -> Done(Ok(Str(localPathOf(filename))))

pullFileStart(remotePath, localPath) ==
    IF ~Truthy(remotePath) \/ ~Truthy(localPath)
    THEN Done(Thrown(Error(<<"Both remotePath and localPath are required">>)))
    ELSE Fs("mkdir", "mkdir", Dirname(localPath.s))

pullFileResume(remotePath, localPath, stg, r) ==
    CASE stg = "mkdir" ->
           IF r.st = "err" THEN Done(r)
           ELSE Exec("pull", <<"pull", SP>> \o sanitizeShellArg(remotePath).v
                              \o <<SP>> \o sanitizeShellArg(localPath).v)
      [] stg = "pull" ->
           IF r.st = "err" THEN Done(r) ELSE Done(Ok(localPath))

\* pushFile that does not look for its source
pushFileStartUnchecked(localPath, remotePath) ==
    IF ~Truthy(localPath) \/ ~Truthy(remotePath)
    THEN Done(Thrown(Error(<<"Both localPath and remotePath are required">>)))
    ELSE Exec("push", <<"push", SP>> \o sanitizeShellArg(localPath).v
                       \o <<SP>> \o sanitizeShellArg(remotePath).v)

pushFileStart(localPath, remotePath) ==
    IF ~Truthy(localPath) \/ ~Truthy(remotePath)
    THEN Done(Thrown(Error(<<"Both localPath and remotePath are required">>)))
    ELSE Fs("access", "access", localPath.s)

pushFileResume(localPath, remotePath, stg, r) ==
    CASE stg = "access" ->
           IF r.st = "err" THEN Done(r)
           ELSE Exec("push", <<"push", SP>> \o sanitizeShellArg(localPath).v
                              \o <<SP>> \o sanitizeShellArg(remotePath).v)
      [] stg = "push" -> Done(r)

(***************************************************************************)
(* Battery.  A label such as 'level: ' is one atom of the text.            *)
(***************************************************************************)
\* output.match(/<label>(\d+)/)?.[1]: the digits after the first label that
\* is followed by a digit, or undefined
NumberAfter(s, label) ==
    LET hits == {n \in 1..(Len(s) - 1) : s[n] = label /\ s[n + 1] \in Digits}
        first == CHOOSE n \in hits : \A m \in hits : n <= m
    IN  IF hits = {} THEN Undefined
        ELSE Str(SubSeq(s, first + 1, RunEnd(s, first + 1)))

\* the number n / d
Quotient(n, d) == IF n % d = 0 THEN Whole(n \div d) ELSE Num(n, d)

getBatteryInfoStart == executeShell("battery", Str(<<"dumpsys battery">>))

getBatteryInfoResume(r) ==
    IF r.st = "err" THEN Done(r)
    ELSE LET level == NumberAfter(r.v, "level: ")
             status == NumberAfter(r.v, "status: ")
             health == NumberAfter(r.v, "health: ")
             temperature == NumberAfter(r.v, "temperature: ")
         IN  Done(Ok(
               [t |-> "object",
                level |-> IF Truthy(level)
                          THEN Whole(ParseDigits(level.s, 0)) ELSE Null,
                status |-> IF Truthy(status)
                           THEN Whole(ParseDigits(status.s, 0)) ELSE Null,
                health |-> IF Truthy(health)
                           THEN Whole(ParseDigits(health.s, 0)) ELSE Null,
                temperature |-> IF Truthy(temperature)
                                THEN Quotient(ParseDigits(temperature.s, 0), 10)
                                ELSE Null]))

(***************************************************************************)
(* The caller's inputs and the answers of the outside world.               *)
(***************************************************************************)
\* numbers a caller may pass: 0, 1.7, -1, NaN, Infinity, and a non-number
Values == {Whole(0), Num(17, 10), Whole(-1), NaN, PosInfinity, Str(<<"1">>)}

Durations == Values \cup {Undefined}

TextValues == {Str(s) : s \in Texts} \cup {Null}

KeyCodes == {"KEYCODE_DPAD_DOWN", "KEYCODE_BACK", "KEYCODE_HOME",
             "KEYCODE_APP_SWITCH", "KEYCODE_POWER"}

\* package names a caller may pass: com.a, a name without a dot, one that
\* starts with a digit, the empty text, and no text at all
PackageNames ==
    {Str(<<"c", "o", "m", ".", "a">>), Str(<<"i", "n", "v">>),
     Str(<<"1", "a", ".", "b">>), Str(<<>>), Null}

Stderrs == {<<>>, <<"some error">>, <<"WARNING", ": linker">>}

Causes == {"Command failed", "ETIMEDOUT", "spawn ENOENT"}

PlainOutputs == {<<>>, <<"output", NL>>}

SizeOutputs ==
    {<<"Physical size: ", "1", "0", "8", "0", "x", "1", "9", "2", "0">>,
     <<"Physical size: ", "7", "2", "0", "x", "1", "2", "8", "0", NL>>,
     <<"error ", "0", "x", "0">>,
     <<"invalid format">>}

DeviceLines ==
    {<<>>,
     <<"dev1", TAB, "device">>, <<"dev2", TAB, "device">>,
     <<"dev1", TAB, "offline">>, <<"dev2", TAB, "unauthorized">>,
     <<"dev1">>}

RECURSIVE LinesOfLen(_)
LinesOfLen(n) ==
    IF n = 0 THEN {<<>>}
    ELSE {<<NL>> \o l \o rest : l \in DeviceLines, rest \in LinesOfLen(n - 1)}

DeviceOutputs ==
    {<<"List of devices attached">> \o ls :
        ls \in UNION {LinesOfLen(n) : n \in 0..MaxLines}}
    \cup {<<"List of devices attached", NL, NL>>}

\* what a property query can come to: a number, a name with a complaint on
\* stderr, or a failure
PropAnswers ==
    {Succeeded(<<"3", "3", NL>>, <<>>),
     Succeeded(<<"Galaxy", SP, "S", "2", "1">>, <<"some error">>)}

PropCauses == {"ETIMEDOUT"}

\* answers to the activity and window dumps: a focus line naming
\* com.ex.app, a record whose package follows a user tag, and a line that
\* names no package
PackageOutputs ==
    {<<"m", "F", "o", "c", "u", "s", ":", SP,
       "c", "o", "m", ".", "e", "x", ".", "a", "p", "p">>,
     <<"R", "e", "c", "{", "9", "f", SP, "u", "0", SP,
       "o", "r", "g", ".", "b", "_", "2", "/", ".", "M", "a", "i", "n", "}", NL>>,
     <<"m", "F", "o", "c", "u", "s", "=", "n", "u", "l", "l">>}

\* answers to the battery dump: all four fields; none; an empty battery
\* with a temperature of 25.5 degrees; a battery at 5 degrees below zero
BatteryOutputs ==
    {<<NL, "level: ", "8", "5", NL, "status: ", "2", NL, "health: ", "2", NL,
       "temperature: ", "2", "5", "0", NL>>,
     <<"invalid data">>,
     <<"level: ", "0", NL, "temperature: ", "2", "5", "5">>,
     <<"level: ", "5", NL, "temperature: ", "-", "5", "0">>}

Stdouts(stg) ==
    CASE stg = "devices" -> DeviceOutputs
      [] stg = "battery" -> BatteryOutputs
      [] stg = "size" -> SizeOutputs
      [] stg \in {"resumed", "focus"} -> PackageOutputs
      [] OTHER -> PlainOutputs

(***************************************************************************)
(* The state machine: one caller, one operation at a time.                 *)
(***************************************************************************)
NoOp == [name |-> "-", a |-> <<>>]

Start(o) ==
    CASE o.name = "executeCommand" -> Exec("cmd", o.a[1])
      [] o.name = "executeShell" -> executeShell("cmd", o.a[1])
      [] o.name = "getDevices" -> getDevicesStart
      [] o.name = "getDeviceInfo" -> getDeviceInfoStart
      [] o.name = "autoConnect" -> autoConnectStart
      [] o.name = "getScreenSize" -> getScreenSizeStart(o.a[1])
      [] o.name = "tap" -> tapStart(o.a[1], o.a[2])
      [] o.name = "swipe" -> swipeStart(o.a[1], o.a[2], o.a[3], o.a[4], o.a[5])
      [] o.name = "scrollDown" -> scrollStart("down", o.a[1])
      [] o.name = "scrollUp" -> scrollStart("up", o.a[1])
      [] o.name = "wait" -> waitStart(o.a[1])
      [] o.name = "keyEvent" -> keyEventStart(o.a[1])
      [] o.name = "typeText" -> typeTextStart(o.a[1])
      [] o.name = "openUrl" -> openUrlStart(o.a[1])
      [] o.name = "forceStop" -> forceStopStart(o.a[1])
      [] o.name = "launchApp" -> launchAppStart(o.a[1])
      [] o.name = "clearAppData" -> clearAppDataStart(o.a[1])
      [] o.name = "getCurrentPackage" -> getCurrentPackageStart
      [] o.name = "takeScreenshot" -> takeScreenshotStart(o.a[1], o.a[2])
      [] o.name = "pullFile" -> pullFileStart(o.a[1], o.a[2])
      [] o.name = "pushFile" -> pushFileStart(o.a[1], o.a[2])
      [] o.name = "getBatteryInfo" -> getBatteryInfoStart
      [] o.name = "reboot" -> Exec("cmd", <<"reboot">>)

\* the operation o, suspended at stage stg, gets r from what it awaited
Resume(o, stg, r) ==
    CASE o.name = "getDevices" -> getDevicesResume(r)
      [] o.name = "autoConnect" -> autoConnectResume(r)
      [] o.name = "getScreenSize" -> getScreenSizeResume(r)
      [] o.name = "scrollDown" -> scrollResume("down", o.a[1], stg, r)
      [] o.name = "scrollUp" -> scrollResume("up", o.a[1], stg, r)
      [] o.name = "wait" -> Done(Ok(Undefined))
      [] o.name = "getCurrentPackage" -> getCurrentPackageResume(stg, r)
      [] o.name = "takeScreenshot" -> takeScreenshotResume(o.a[1], o.a[2], stg, r)
      [] o.name = "pullFile" -> pullFileResume(o.a[1], o.a[2], stg, r)
      [] o.name = "pushFile" -> pushFileResume(o.a[1], o.a[2], stg, r)
      [] o.name = "getBatteryInfo" -> getBatteryInfoResume(r)
      [] OTHER -> Done(r)

\* executeCommand called for each of the steps in turn, up to its await
RECURSIVE dispatchAll(_, _)
dispatchAll(dev, steps) ==
    IF steps = <<>> THEN <<>>
    ELSE dispatch(dev, Head(steps).command, Head(steps).shell)
         \o dispatchAll(dev, Tail(steps))

\* the step is taken: events first, then what the step starts
Apply(step, emitted) ==
    LET before == trace \o emitted \o step.emit
    IN  /\ deviceId' = step.dev
        /\ screenSize' = step.size
        /\ stage' = step.stage
        /\ pc' = IF step.do = "done" THEN "done" ELSE step.do
        /\ cur' = IF step.do = "exec" THEN step.command ELSE <<>>
        /\ fan' = IF step.do = "all"
                  THEN [i \in 1..Len(step.branches) |->
                           [command |-> step.branches[i].command,
                            at |-> Len(dispatchAll(step.dev, SubSeq(step.branches, 1, i)))
                                   + Len(before),
                            r |-> NoResult]]
                  ELSE <<>>
        /\ result' = step.res
        /\ trace' = before \o
                    (CASE step.do = "exec" -> dispatch(step.dev, step.command, step.shell)
                       [] step.do = "all" -> dispatchAll(step.dev, step.branches)
                       [] step.do = "fs" -> << [k |-> "fs", v |-> step.command] >>
                       [] step.do = "timer" -> << [k |-> "timer"] >>
                       [] OTHER -> <<>>)

Call(o) ==
    /\ pc = "idle"
    /\ op' = o
    /\ pre' = [deviceId |-> deviceId, screenSize |-> screenSize]
    /\ Apply(Start(o), <<>>)
    /\ UNCHANGED <<arg, ret, scheduler>>

executeCommand ==
    /\ pc = "idle"
    /\ \E c \in {<<"devices">>, <<"invalid">>} :
          Call([name |-> "executeCommand", a |-> <<c>>])

executeShellOp ==
    /\ pc = "idle"
    /\ \E c \in TextValues : Call([name |-> "executeShell", a |-> <<c>>])

getDevices == Call([name |-> "getDevices", a |-> <<>>])

getDeviceInfo == Call([name |-> "getDeviceInfo", a |-> <<>>])

autoConnect == Call([name |-> "autoConnect", a |-> <<>>])

getScreenSize ==
    /\ pc = "idle"
    /\ \E refresh \in BOOLEAN : Call([name |-> "getScreenSize", a |-> <<refresh>>])

tap ==
    /\ pc = "idle"
    /\ \E x, y \in Values : Call([name |-> "tap", a |-> <<x, y>>])

swipe ==
    /\ pc = "idle"
    /\ \E x1, y1, x2, y2 \in Values, d \in Durations :
          Call([name |-> "swipe", a |-> <<x1, y1, x2, y2, d>>])

scrollDown ==
    /\ pc = "idle"
    /\ \E d \in Durations : Call([name |-> "scrollDown", a |-> <<d>>])

scrollUp ==
    /\ pc = "idle"
    /\ \E d \in Durations : Call([name |-> "scrollUp", a |-> <<d>>])

wait ==
    /\ pc = "idle"
    /\ \E ms \in Values : Call([name |-> "wait", a |-> <<ms>>])

keyEvent ==
    /\ pc = "idle"
    /\ \E code \in KeyCodes : Call([name |-> "keyEvent", a |-> <<code>>])

typeText ==
    /\ pc = "idle"
    /\ \E text \in TextValues : Call([name |-> "typeText", a |-> <<text>>])

openUrl ==
    /\ pc = "idle"
    /\ \E url \in TextValues : Call([name |-> "openUrl", a |-> <<url>>])

forceStop ==
    /\ pc = "idle"
    /\ \E p \in PackageNames : Call([name |-> "forceStop", a |-> <<p>>])

launchApp ==
    /\ pc = "idle"
    /\ \E p \in PackageNames : Call([name |-> "launchApp", a |-> <<p>>])

clearAppData ==
    /\ pc = "idle"
    /\ \E p \in PackageNames : Call([name |-> "clearAppData", a |-> <<p>>])

getCurrentPackage == Call([name |-> "getCurrentPackage", a |-> <<>>])

takeScreenshot ==
    /\ pc = "idle"
    /\ \E f \in (TextValues \ {Null}) \cup {Undefined}, cleanup \in BOOLEAN :
          Call([name |-> "takeScreenshot", a |-> <<f, cleanup>>])

pullFile ==
    /\ pc = "idle"
    /\ \E r, l \in TextValues : Call([name |-> "pullFile", a |-> <<r, l>>])

pushFile ==
    /\ pc = "idle"
    /\ \E l, r \in TextValues : Call([name |-> "pushFile", a |-> <<l, r>>])

getBatteryInfo == Call([name |-> "getBatteryInfo", a |-> <<>>])

reboot == Call([name |-> "reboot", a |-> <<>>])

\* the external process ends and executeCommand, then the operation, go on
Settle(out) ==
    /\ pc = "exec"
    /\ Apply(Resume(op, stage, settle(cur, out).r),
             << [k |-> "exit", out |-> out, at |-> Len(trace)] >>
             \o settle(cur, out).emit
             \o << [k |-> "settled", r |-> settle(cur, out).r] >>)
    /\ UNCHANGED <<op, pre, arg, ret, scheduler>>

ExecSucceeds == \E stdout \in Stdouts(stage), stderr \in Stderrs :
    Settle(Succeeded(stdout, stderr))

ExecFails == \E cause \in Causes : Settle(Failed(cause))

IsSettled(e) == e.k = "settled"

\* a wait for all that hands the values over in the order they arrived
SettleBranchByArrival(i, out) ==
    LET s == settle(fan[i].command, out)
        settled == [fan EXCEPT ![i].r = getDeviceInfoCatch(s.r)]
        events == << [k |-> "exit", out |-> out, at |-> fan[i].at] >> \o s.emit
                  \o << [k |-> "settled", r |-> s.r] >>
        arrived == SelectSeq(trace \o events, IsSettled)
    IN  /\ pc = "all"
        /\ fan[i].r = NoResult
        /\ IF \A j \in DOMAIN settled : settled[j].r # NoResult
           THEN Apply(getDeviceInfoResume(
                          [j \in DOMAIN settled |-> getDeviceInfoCatch(arrived[j].r)]),
                      events)
           ELSE /\ fan' = settled
                /\ trace' = trace \o events
                /\ UNCHANGED <<deviceId, screenSize, pc, stage, cur, result>>
        /\ UNCHANGED <<op, pre, arg, ret, scheduler>>

\* one of the concurrent processes ends: its executeCommand goes on, then
\* the catch handler of its query, and when it was the last one to settle,
\* the operation that waits for all of them
SettleBranch(i, out) ==
    LET s == settle(fan[i].command, out)
        settled == [fan EXCEPT ![i].r = getDeviceInfoCatch(s.r)]
        events == << [k |-> "exit", out |-> out, at |-> fan[i].at] >> \o s.emit
                  \o << [k |-> "settled", r |-> s.r] >>
    IN  /\ pc = "all"
        /\ fan[i].r = NoResult
        /\ IF \A j \in DOMAIN settled : settled[j].r # NoResult
           THEN Apply(getDeviceInfoResume([j \in DOMAIN settled |-> settled[j].r]),
                      events)
           ELSE /\ fan' = settled
                /\ trace' = trace \o events
                /\ UNCHANGED <<deviceId, screenSize, pc, stage, cur, result>>
        /\ UNCHANGED <<op, pre, arg, ret, scheduler>>

BranchSucceeds ==
    /\ pc = "all"
    /\ \E i \in DOMAIN fan, out \in PropAnswers : SettleBranch(i, out)

BranchFails ==
    /\ pc = "all"
    /\ \E i \in DOMAIN fan, cause \in PropCauses : SettleBranch(i, Failed(cause))

FsSucceeds ==
    /\ pc = "fs"
    /\ Apply(Resume(op, stage, Ok(Undefined)), << [k |-> "fsexit", ok |-> TRUE] >>)
    /\ UNCHANGED <<op, pre, arg, ret, scheduler>>

FsFails ==
    /\ pc = "fs"
    /\ Apply(Resume(op, stage, Thrown(Error(<<"EACCES">>))),
             << [k |-> "fsexit", ok |-> FALSE] >>)
    /\ UNCHANGED <<op, pre, arg, ret, scheduler>>

TimerFires ==
    /\ pc = "timer"
    /\ Apply(Resume(op, stage, Ok(Undefined)), <<>>)
    /\ UNCHANGED <<op, pre, arg, ret, scheduler>>

\* the caller takes the outcome and is free to call again
Return ==
    /\ pc = "done"
    /\ pc' = "idle"
    /\ op' = NoOp
    /\ stage' = "-"
    /\ trace' = <<>>
    /\ result' = NoResult
    /\ pre' = [deviceId |-> deviceId, screenSize |-> screenSize]
    /\ UNCHANGED <<deviceId, screenSize, cur, fan, arg, ret, scheduler>>

\* new ADBWrapper(deviceId): deviceId given or null, no geometry yet
Init ==
    /\ deviceId \in {Null, Str(<<"emu1">>)}
    /\ screenSize = Null
    /\ pc = "idle"
    /\ op = NoOp
    /\ stage = "-"
    /\ cur = <<>>
    /\ fan = <<>>
    /\ trace = <<>>
    /\ result = NoResult
    /\ pre = [deviceId |-> deviceId, screenSize |-> screenSize]
    /\ arg = Null
    /\ ret = NoResult
    /\ NoServer

Next ==
    \/ executeCommand \/ executeShellOp \/ getDevices \/ getDeviceInfo
    \/ autoConnect
    \/ getScreenSize \/ tap \/ swipe \/ scrollDown \/ scrollUp \/ wait
    \/ keyEvent \/ typeText \/ openUrl \/ forceStop \/ launchApp \/ clearAppData
    \/ getCurrentPackage \/ takeScreenshot
    \/ pullFile
    \/ pushFile \/ getBatteryInfo \/ reboot
    \/ ExecSucceeds \/ ExecFails \/ BranchSucceeds \/ BranchFails \/ FsSucceeds \/ FsFails \/ TimerFires
    \/ Return

Spec == Init /\ [][Next]_vars

(***************************************************************************)
(* The sanitizer on its own: an input is drawn, sanitizeShellArg applied.  *)
(***************************************************************************)
SanitizerInputs == {Str(s) : s \in ArgTexts} \cup {Null, Undefined, Whole(0), NaN}

SanitizerInit ==
    /\ deviceId = Null
    /\ screenSize = Null
    /\ pc = "idle"
    /\ op = NoOp
    /\ stage = "-"
    /\ cur = <<>>
    /\ fan = <<>>
    /\ trace = <<>>
    /\ result = NoResult
    /\ pre = [deviceId |-> deviceId, screenSize |-> screenSize]
    /\ arg \in SanitizerInputs
    /\ ret = NoResult
    /\ NoServer

Sanitize ==
    /\ ret = NoResult
    /\ ret' = sanitizeShellArg(arg)
    /\ UNCHANGED <<deviceId, screenSize, pc, op, stage, cur, fan, trace, result,
                   pre, arg, scheduler>>

SanitizerNext == Sanitize

SanitizerSpec == SanitizerInit /\ [][SanitizerNext]_vars

(***************************************************************************)
(* Construction on its own: a device id and options are drawn and the      *)
(* constructor builds the session fields from them.                        *)
(***************************************************************************)
DefaultTimeout == 30000

\* constructor(deviceId = null, options = {}): the fields of the new session
constructor(id, options) ==
    [deviceId |-> IF id.t = "undefined" THEN Null ELSE id,
     screenSize |-> Null,
     timeout |-> IF Truthy(options.timeout) THEN options.timeout
                 ELSE Whole(DefaultTimeout),
     screenshotDir |-> IF Truthy(options.screenshotDir) THEN options.screenshotDir
                       ELSE Str(screenshotDir)]

\* timeouts a configuration may hold: none, 0, -1, 1, 5000, 0.5, NaN
Timeouts ==
    {Undefined, Whole(0), Whole(-1), Whole(1), Whole(5000), Num(1, 2), NaN}

ConstructorInputs ==
    {[deviceId |-> id, options |-> [timeout |-> t, screenshotDir |-> d]] :
        id \in {Undefined, Null, Str(<<"device123">>)},
        t \in Timeouts,
        d \in {Undefined, Str(<<>>), Str(<<"/tmp/screens">>)}}

ConstructorInit ==
    /\ deviceId = Null
    /\ screenSize = Null
    /\ pc = "idle"
    /\ op = NoOp
    /\ stage = "-"
    /\ cur = <<>>
    /\ fan = <<>>
    /\ trace = <<>>
    /\ result = NoResult
    /\ pre = [deviceId |-> deviceId, screenSize |-> screenSize]
    /\ arg \in ConstructorInputs
    /\ ret = NoResult
    /\ NoServer

\* new ADBWrapper(arg.deviceId, arg.options)
Construct ==
    /\ ret = NoResult
    /\ ret' = Ok(constructor(arg.deviceId, arg.options))
    /\ deviceId' = constructor(arg.deviceId, arg.options).deviceId
    /\ screenSize' = constructor(arg.deviceId, arg.options).screenSize
    /\ UNCHANGED <<pc, op, stage, cur, fan, trace, result, pre, arg, scheduler>>

ConstructorNext == Construct

ConstructorSpec == ConstructorInit /\ [][ConstructorNext]_vars

(***************************************************************************)
(* The purchase scheduler of the web server (src/websites/index.js): an    *)
(* in-memory list of URLs, one timeout per added URL when auto-buy is      *)
(* enabled, and purchases that run in the background.  A URL is the text   *)
(* <<scheme, host, path>>, the host a sequence of labels (the dots between *)
(* them left out).  List indexes count from 0 as in the source; a          *)
(* request's index is what parseInt made of it, a whole number or NaN.     *)
(* An item's addedAt is the ordinal of its addition; triggerTime and       *)
(* delayMinutes are left out: the delay is random, so the timeouts may     *)
(* fire in any order.                                                      *)
(***************************************************************************)
MaxAdds == 3     \* most URLs added to the list in a run
MaxBuys == 1     \* most manual buy requests that reach triggerPurchase
MaxDirect == 1   \* most purchases of GET /buy/:item in progress at a time

\* a label in lower case
LowerLabel(l) ==
    CASE l = "WWW" -> "www"
      [] l = "Amazon" -> "amazon"
      [] l = "MERCADOLIVRE" -> "mercadolivre"
      [] l = "COM" -> "com"
      [] l = "BR" -> "br"
      [] OTHER -> l

\* String.prototype.toLowerCase on a domain
RECURSIVE toLowerCase(_)
toLowerCase(d) ==
    IF d = <<>> THEN <<>> ELSE <<LowerLabel(Head(d))>> \o toLowerCase(Tail(d))

\* new URL(url) accepts the text
IsUrl(s) == Len(s) >= 2 /\ s[1] = "https://"

\* new URL(url).hostname: the host, in lower case
hostname(s) == toLowerCase(s[2])

\* WebsiteFactory.getHandler(domain): the handler's site, or Null
getHandler(domain) ==
    LET normalizedDomain == toLowerCase(domain)
    IN  CASE normalizedDomain \in {<<"aliexpress">>, <<"www", "aliexpress", "com">>} ->
                [t |-> "object", site |-> "aliexpress"]
          [] normalizedDomain \in {<<"amazon">>, <<"www", "amazon", "com">>} ->
                [t |-> "object", site |-> "amazon"]
          [] normalizedDomain \in {<<"mercadolivre">>, <<"mercadolibre">>,
                                   <<"www", "mercadolivre", "com", "br">>,
                                   <<"www", "mercadolibre", "com">>,
                                   <<"produto", "mercadolivre", "com", "br">>} ->
                [t |-> "object", site |-> "mercadolivre"]
          [] OTHER -> Null

\* WebsiteFactory.hasHandler(domain)
hasHandler(domain) ==
    LET normalizedDomain == toLowerCase(domain)
    IN  normalizedDomain \in {<<"aliexpress">>, <<"www", "aliexpress", "com">>,
                              <<"amazon">>, <<"www", "amazon", "com">>,
                              <<"mercadolivre">>, <<"mercadolibre">>,
                              <<"www", "mercadolivre", "com", "br">>,
                              <<"www", "mercadolibre", "com">>}

\* the server's mutable state, as one record the handlers transform
Server ==
    [urls |-> urls, activeTimers |-> activeTimers, timeouts |-> timeouts,
     flows |-> flows, log |-> log]

\* urls[index] is an item (index a whole number or NaN)
HasItem(s, index) ==
    index.k = "finite" /\ index.n >= 0 /\ index.n < Len(s.urls)

\* the handles kept in activeTimers[index]
HandlesAt(s, index) ==
    IF index.k = "finite" THEN {h \in s.activeTimers : h.index = index.n} ELSE {}

\* urls[index].status = status
SetStatus(s, index, status) ==
    [s EXCEPT !.urls[index.n + 1].status = status]

\* how many purchases of url were started so far
StartsOf(s, url) == Cardinality({l \in s.log : l.e = "start" /\ l.url = url})

\* triggerPurchase(index) up to its await of handler.buyItem(url); by tells
\* who called it, sched the URL a timeout was set for
triggerPurchase(s, index, by, sched) ==
    IF ~HasItem(s, index) THEN s
    ELSE LET item == s.urls[index.n + 1]
             handler == getHandler(hostname(item.url))
         IN  IF handler # Null
             THEN [s EXCEPT
                     !.flows = @ \cup {[n |-> StartsOf(s, item.url) + 1,
                                        index |-> index.n, url |-> item.url,
                                        by |-> by]},
                     !.log = @ \cup {[e |-> "start", n |-> StartsOf(s, item.url) + 1,
                                      url |-> item.url, item |-> item.addedAt,
                                      by |-> by, sched |-> sched]}]
             ELSE SetStatus(s, index, "no-handler")

\* clearTimeout(activeTimers[index]), when there is a handle
clearTimer(s, index) ==
    [s EXCEPT !.timeouts = {t \in @ : t.id \notin {h.id : h \in HandlesAt(s, index)}}]

\* delete activeTimers[index]
deleteTimer(s, index) ==
    [s EXCEPT !.activeTimers = @ \ HandlesAt(s, index)]

\* scheduleAutoPurchase(index, delayMs): the timeout gets the handle id
scheduleAutoPurchase(s, index, id) ==
    LET cleared == deleteTimer(clearTimer(s, index), index)
    IN  [cleared EXCEPT
           !.activeTimers = @ \cup {[index |-> index.n, id |-> id]},
           !.timeouts = @ \cup {[id |-> id, index |-> index.n,
                                 url |-> s.urls[index.n + 1].url]}]

\* the places of url in the list
PlacesOf(s, url) == {i \in 1..Len(s.urls) : s.urls[i].url = url}

Commit(s, response, id) ==
    /\ urls' = s.urls
    /\ activeTimers' = s.activeTimers
    /\ timeouts' = s.timeouts
    /\ flows' = s.flows
    /\ log' = s.log
    /\ res' = response
    /\ nextId' = id
    /\ UNCHANGED <<autoBuyEnabled, deviceId, screenSize, pc, op, stage, cur, fan,
                   trace, result, pre, arg, ret>>

\* POST /urls with body { url }
postUrls(url) ==
    IF ~Truthy(url)
    THEN Commit(Server, [status |-> 400], nextId)
    ELSE IF ~IsUrl(url.s)
    THEN Commit(Server, [status |-> 400], nextId)
    ELSE IF PlacesOf(Server, url.s) # {}
    THEN Commit(Server, [status |-> 200], nextId)
    ELSE LET item == [url |-> url.s,
                      status |-> IF autoBuyEnabled THEN "pending" ELSE "ready",
                      addedAt |-> nextId]
             index == Whole(Len(urls))
             pushed == [Server EXCEPT !.urls = Append(@, item)]
         IN  Commit(IF autoBuyEnabled THEN scheduleAutoPurchase(pushed, index, nextId)
                    ELSE pushed,
                    [status |-> 200],
                    nextId + 1)

\* the test of both routes: index < 0 || index >= urls.length
NotFound(index) ==
    index.k = "finite" /\ (index.n < 0 \/ index.n >= Len(urls))

\* Array.prototype.splice(index, 1): NaN counts as 0
splice(list, index) ==
    LET start == IF index.k = "finite" THEN index.n ELSE 0
    IN  SubSeq(list, 1, start) \o SubSeq(list, start + 2, Len(list))

\* DELETE /urls/:index
deleteUrls(index) ==
    IF NotFound(index)
    THEN Commit(Server, [status |-> 404], nextId)
    ELSE LET cleared == deleteTimer(clearTimer(Server, index), index)
         IN  Commit([cleared EXCEPT !.urls = splice(@, index)],
                    [status |-> 200], nextId)

\* POST /urls/:index/buy
postUrlsBuy(index) ==
    IF NotFound(index)
    THEN Commit(Server, [status |-> 404], nextId)
    ELSE LET cleared == deleteTimer(clearTimer(Server, index), index)
         IN  Commit(triggerPurchase(cleared, index, "manual", <<>>),
                    [status |-> 200], nextId)

\* the purchases that GET /buy/:item started and that are in progress
DirectFlows == {f \in flows : f.by = "direct"}

\* GET /buy/:item: new URL(item) throws on a text that is no URL, outside the
\* try block, and nobody handles the rejection of the route's function;
\* otherwise the response tells whether a handler is known, and the
\* purchase runs in the background when getHandler gave one
getBuy(item) ==
    IF ~IsUrl(item)
    THEN Commit([Server EXCEPT !.log = @ \cup {[e |-> "unhandled"]}], res, nextId)
    ELSE LET domain == hostname(item)
             handler == getHandler(domain)
             started == [Server EXCEPT
                           !.flows = @ \cup {[n |-> Cardinality(DirectFlows) + 1,
                                              index |-> -1, url |-> item,
                                              by |-> "direct"]}]
         IN  Commit(IF handler # Null THEN started ELSE Server,
                    [status |-> 200], nextId)

\* the callback of a timeout: await triggerPurchase(index), up to the await
\* inside it; without a purchase in flight the callback runs to its end
timeoutCallback(t) ==
    LET fired == [Server EXCEPT !.timeouts = @ \ {t}]
        after == triggerPurchase(fired, Whole(t.index), "timer", t.url)
    IN  IF after.flows = fired.flows THEN deleteTimer(after, Whole(t.index))
        ELSE after

\* triggerPurchase after handler.buyItem settled: the status is written to
\* urls[index]; without an item there the write throws, in the catch block
\* too, and the call rejects with nobody to handle it.  The callback of a
\* timeout then goes on to delete activeTimers[index].  GET /buy/:item only
\* logs how its purchase ended.
purchaseSettles(f, status) ==
    LET left == [Server EXCEPT !.flows = @ \ {f}]
        index == Whole(f.index)
    IN  IF f.by = "direct" THEN left
        ELSE IF HasItem(left, index)
        THEN LET written == SetStatus(left, index, status)
             IN  IF f.by = "timer" THEN deleteTimer(written, index) ELSE written
        ELSE [left EXCEPT !.log = @ \cup {[e |-> "unhandled"]}]

\* what handler.buyItem resolved to (true, false) or that it threw
Statuses == {"purchased", "failed", "error"}

SchedulerUrls ==
    {Str(<<"https://", <<"produto", "mercadolivre", "com", "br">>, "/a">>),
     Str(<<"https://", <<"WWW", "MERCADOLIVRE", "COM", "BR">>, "/b">>),
     Str(<<"https://", <<"example", "com">>, "/c">>),
     Str(<<"not a url">>),
     Undefined}

IndexParams == {Whole(n) : n \in -1..MaxAdds} \cup {NaN}

ManualStarts == {l \in log : l.e = "start" /\ l.by = "manual"}

PostUrls ==
    /\ nextId <= MaxAdds
    /\ \E url \in SchedulerUrls : postUrls(url)

DeleteUrls == \E index \in IndexParams : deleteUrls(index)

PostUrlsBuy ==
    /\ Cardinality(ManualStarts) < MaxBuys
    /\ \E index \in IndexParams : postUrlsBuy(index)

BuyItems ==
    {<<"https://", <<"produto", "mercadolivre", "com", "br">>, "/a">>,
     <<"https://", <<"example", "com">>, "/c">>}

GetBuy ==
    /\ Cardinality(DirectFlows) < MaxDirect
    /\ \E item \in BuyItems : getBuy(item)

TimeoutFires == \E t \in timeouts : Commit(timeoutCallback(t), res, nextId)

PurchaseSettles ==
    \E f \in flows, status \in Statuses : Commit(purchaseSettles(f, status), res, nextId)

SchedulerInit ==
    /\ deviceId = Null
    /\ screenSize = Null
    /\ pc = "idle"
    /\ op = NoOp
    /\ stage = "-"
    /\ cur = <<>>
    /\ fan = <<>>
    /\ trace = <<>>
    /\ result = NoResult
    /\ pre = [deviceId |-> deviceId, screenSize |-> screenSize]
    /\ arg = Null
    /\ ret = NoResult
    /\ autoBuyEnabled \in BOOLEAN
    /\ urls = <<>>
    /\ activeTimers = {}
    /\ timeouts = {}
    /\ flows = {}
    /\ log = {}
    /\ res = [status |-> 0]
    /\ nextId = 1

SchedulerNext ==
    \/ PostUrls \/ DeleteUrls \/ PostUrlsBuy \/ GetBuy \/ TimeoutFires
    \/ PurchaseSettles

SchedulerSpec == SchedulerInit /\ [][SchedulerNext]_vars

\* the scheduler with timeouts that fire and purchases that end: a timeout
\* that is set and not cleared fires, a purchase in progress settles
SchedulerFairSpec ==
    /\ SchedulerInit
    /\ [][SchedulerNext]_vars
    /\ WF_vars(TimeoutFires)
    /\ WF_vars(PurchaseSettles)

(***************************************************************************)
(* The website factory on its own: a domain is drawn, and both of its      *)
(* questions are asked about it.                                           *)
(***************************************************************************)
MaxLabels == 4   \* most labels of a domain the factory is asked about

DomainLabels ==
    {"www", "WWW", "amazon", "Amazon", "com", "produto", "mercadolivre",
     "MERCADOLIVRE", "br"}

RECURSIVE DomainsOfLen(_)
DomainsOfLen(n) ==
    IF n = 0 THEN {<<>>}
    ELSE {<<l>> \o d : l \in DomainLabels, d \in DomainsOfLen(n - 1)}

Domains == UNION {DomainsOfLen(n) : n \in 1..MaxLabels}

FactoryInit ==
    /\ deviceId = Null
    /\ screenSize = Null
    /\ pc = "idle"
    /\ op = NoOp
    /\ stage = "-"
    /\ cur = <<>>
    /\ fan = <<>>
    /\ trace = <<>>
    /\ result = NoResult
    /\ pre = [deviceId |-> deviceId, screenSize |-> screenSize]
    /\ arg \in {Str(d) : d \in Domains}
    /\ ret = NoResult
    /\ NoServer

AskFactory ==
    /\ ret = NoResult
    /\ ret' = Ok([t |-> "object", hasHandler |-> hasHandler(arg.s),
                  handler |-> getHandler(arg.s)])
    /\ UNCHANGED <<deviceId, screenSize, pc, op, stage, cur, fan, trace, result,
                   pre, arg, scheduler>>

FactoryNext == AskFactory

FactorySpec == FactoryInit /\ [][FactoryNext]_vars

(***************************************************************************)
(* The site handlers: buyItem makes a fresh ADBWrapper and awaits a fixed  *)
(* sequence of its operations inside one try block.                        *)
(***************************************************************************)
\* the four buyItem bodies of the repository: MercadoLivreHandler looking
\* for the button (mercadolivre.js:23-89), MercadoLivreHandler scrolling a
\* fixed distance (mercadolivre.js:116-170), ScriptHandler (part_002) and
\* the MercadoLivreHandler of part_003
Handlers == {"MercadoLivreFind", "MercadoLivreScroll", "ScriptHandler", "MercadoLivreSwipe"}

Step(name, a) == [name |-> name, a |-> a]

\* the JavaScript values true and false
True == [t |-> "boolean", b |-> TRUE]
False == [t |-> "boolean", b |-> FALSE]

TapAt(x, y) == Step("tap", <<Whole(x), Whole(y)>>)

WaitFor(ms) == Step("wait", <<Whole(ms)>>)

\* the item the handler is asked to buy
Item == Str(<<"https://produto.mercadolivre.com.br/MLB-1">>)

\* 'com.mercadolibre'
MercadoLibre == Str(<<"c", "o", "m", ".", "m", "e", "r", "c", "a", "d", "o",
                      "l", "i", "b", "r", "e">>)

\* `mercadolivre-item-${DateTime.now().toMillis()}.png`, cleanup by default
ScreenshotStep ==
    Step("takeScreenshot", <<Str(<<"mercadolivre-item-", "1", ".png">>), TRUE>>)

\* await adb.tap(..., 850): the Confirm Purchase button
ConfirmPurchase == {TapAt(540, 850), TapAt(500, 850)}

\* the awaited calls of buyItem, in program order
buyItemSteps(h) ==
    CASE h = "MercadoLivreFind" ->
           << Step("autoConnect", <<>>), WaitFor(5000),
              Step("forceStop", <<MercadoLibre>>), WaitFor(5000),
              Step("openUrl", <<Item>>), WaitFor(20000),
              TapAt(540, 100), WaitFor(5000),
              Step("scrollToElement", <<>>), WaitFor(2000),
              Step("tap", <<Undefined, Undefined>>), WaitFor(11000),
              TapAt(540, 550), WaitFor(11000),
              TapAt(540, 2050), WaitFor(11000),
              TapAt(540, 1080), WaitFor(11000),
              TapAt(540, 640), WaitFor(11000),
              TapAt(540, 850), WaitFor(8000),
              ScreenshotStep >>
      [] h = "MercadoLivreScroll" ->
           << Step("autoConnect", <<>>), WaitFor(5000),
              Step("forceStop", <<MercadoLibre>>), WaitFor(5000),
              Step("openUrl", <<Item>>), WaitFor(20000),
              TapAt(540, 100), WaitFor(11000),
              Step("scrollDown", <<Whole(900)>>), WaitFor(11000),
              TapAt(500, 1370), WaitFor(11000),
              TapAt(500, 550), WaitFor(11000),
              TapAt(500, 2050), WaitFor(11000),
              TapAt(500, 1080), WaitFor(11000),
              TapAt(500, 640), WaitFor(11000),
              ScreenshotStep >>
      [] h = "ScriptHandler" ->
           << Step("loadScript", <<>>), Step("autoConnect", <<>>), WaitFor(5000),
              Step("execute", <<>>) >>
      [] h = "MercadoLivreSwipe" ->
           << Step("autoConnect", <<>>), Step("openUrl", <<Item>>), WaitFor(5000),
              TapAt(1, 1),
              Step("swipe", <<Whole(500), Whole(1000), Whole(500), Whole(200),
                              Whole(300)>>),
              WaitFor(5000),
              TapAt(500, 1011), WaitFor(5000),
              TapAt(500, 550), WaitFor(5000),
              TapAt(500, 2050), WaitFor(8000),
              TapAt(500, 1080), WaitFor(3000),
              TapAt(500, 640), WaitFor(3000),
              TapAt(500, 850), WaitFor(8000),
              ScreenshotStep >>

\* steps that are no operation of the ADBWrapper: the script manager and
\* the script parser, whose calls resolve or reject, and scrollToElement,
\* which the wrapper does not define, so that calling it throws a TypeError
Outcomes(step) ==
    CASE step.name \in {"loadScript", "execute"} -> BOOLEAN
      [] step.name = "scrollToElement" -> {FALSE}
      [] OTHER -> {}

\* what the catch block of buyItem returns
buyItemCatch(h) == IF h = "MercadoLivreSwipe" THEN Ok(Undefined) ELSE Ok(False)

\* what buyItem returns from the end of its try block
buyItemEnd(h) == IF h = "MercadoLivreSwipe" THEN Ok(Undefined) ELSE Ok(True)

\* buyItem after an awaited step: on to the next step, the end of the try
\* block, or the catch block
buyItemAfter(call, ok) ==
    LET done == Append(call.done, ok)
    IN  [call |-> [call EXCEPT !.done = done],
         ret |-> IF ~ok THEN buyItemCatch(call.handler)
                 ELSE IF Len(done) = Len(buyItemSteps(call.handler))
                      THEN buyItemEnd(call.handler)
                      ELSE NoResult]

NextStep == buyItemSteps(arg.handler)[Len(arg.done) + 1]

\* buyItem calls the next operation of the wrapper
BuyItemCalls ==
    /\ pc = "idle"
    /\ ret = NoResult
    /\ Len(arg.done) < Len(buyItemSteps(arg.handler))
    /\ Outcomes(NextStep) = {}
    /\ Call(NextStep)

\* the awaited operation has settled: buyItem goes on, returns or catches
BuyItemAwaits ==
    /\ pc = "done"
    /\ arg' = buyItemAfter(arg, result.st = "ok").call
    /\ ret' = buyItemAfter(arg, result.st = "ok").ret
    /\ pc' = "idle"
    /\ op' = NoOp
    /\ stage' = "-"
    /\ trace' = <<>>
    /\ result' = NoResult
    /\ pre' = [deviceId |-> deviceId, screenSize |-> screenSize]
    /\ UNCHANGED <<deviceId, screenSize, cur, fan, scheduler>>

\* a step outside the wrapper resolves or throws
BuyItemOther ==
    /\ pc = "idle"
    /\ ret = NoResult
    /\ Len(arg.done) < Len(buyItemSteps(arg.handler))
    /\ \E ok \in Outcomes(NextStep) :
          /\ arg' = buyItemAfter(arg, ok).call
          /\ ret' = buyItemAfter(arg, ok).ret
    /\ UNCHANGED <<deviceId, screenSize, pc, op, stage, cur, fan, trace, result,
                   pre, scheduler>>

\* buyItem(item) is called on a handler; new ADBWrapper() has no device
HandlerInit ==
    /\ deviceId = Null
    /\ screenSize = Null
    /\ pc = "idle"
    /\ op = NoOp
    /\ stage = "-"
    /\ cur = <<>>
    /\ fan = <<>>
    /\ trace = <<>>
    /\ result = NoResult
    /\ pre = [deviceId |-> deviceId, screenSize |-> screenSize]
    /\ arg \in {[handler |-> h, done |-> <<>>] : h \in Handlers}
    /\ ret = NoResult
    /\ NoServer

HandlerNext ==
    \/ BuyItemCalls \/ BuyItemAwaits \/ BuyItemOther
    \/ ExecSucceeds \/ ExecFails \/ FsSucceeds \/ FsFails \/ TimerFires

HandlerSpec == HandlerInit /\ [][HandlerNext]_vars

(***************************************************************************)
(* Properties.                                                             *)
(***************************************************************************)
Entries(kind) == {i \in 1..Len(trace) : trace[i].k = kind}

\* the process start that the entry at i belongs to: the last one before i
StartBefore(i) ==
    CHOOSE j \in Entries("exec") : j < i /\ \A m \in Entries("exec") : m < i => m <= j

\* C1: every start of the external process is directly preceded by a
\* command_executed event carrying the very command line the process is
\* started with, and every warning or error event comes after the start, and
\* so after the command_executed event, of the invocation it belongs to.
C1_CommandExecutedFirst ==
    /\ \A i \in Entries("exec") :
          /\ i > 1
          /\ trace[i - 1].k = "command_executed"
          /\ trace[i - 1].v = trace[i].v
    /\ \A i \in Entries("warning") \cup Entries("error") :
          /\ \E j \in Entries("exec") : j < i
          /\ trace[StartBefore(i) - 1].k = "command_executed"
          /\ trace[i - 1].k = "exit"
          /\ trace[i - 1].at \in Entries("exec")
          /\ trace[i - 1].at < i - 1
          /\ trace[trace[i - 1].at - 1].k = "command_executed"
          /\ op.name # "getDeviceInfo" => StartBefore(i) = i - 2

\* a command failed and its error event was emitted after command_executed
C1_Witness ==
    /\ pc = "done"
    /\ Entries("error") # {}
    /\ Entries("warning") # {}

\* C2: when the external process fails, the next thing executeCommand does
\* is emit one error event carrying an ADBError whose message contains the
\* message of the cause, which holds the cause and the command, and then it
\* rejects with that same error and nothing else is emitted for the command.
C2_FailureIsOneADBError ==
    \A i \in Entries("exit") :
        ~trace[i].out.ok =>
            /\ Len(trace) >= i + 2
            /\ trace[i + 1].k = "error"
            /\ trace[i + 1].v.name = "ADBError"
            /\ Includes(trace[i + 1].v.message, trace[i].out.error.message)
            /\ trace[i + 1].v.originalError = trace[i].out.error
            /\ trace[i + 2].k = "settled"
            /\ trace[i + 2].r = Thrown(trace[i + 1].v)
            /\ trace[i + 2].r.e # trace[i].out.error

\* a directly called executeCommand failed and the caller got the ADBError
C2_Witness ==
    /\ pc = "done"
    /\ op.name = "executeCommand"
    /\ result.st = "err"
    /\ result.e.name = "ADBError"
    /\ Entries("error") # {}

\* the command line addressed to the device id dev, or to no device
Addressed(dev, command) ==
    IF dev.t = "string"
    THEN <<"adb", SP, "-s", SP>> \o dev.s \o <<SP>> \o command
    ELSE <<"adb", SP>> \o command

\* C3: every command of a call is started with the line addressed to the
\* session's device id when that is set and with no device flag when it is
\* unset; the id changes only when autoConnect succeeds, to the id it returns.
C3_DispatchState ==
    /\ deviceId.t \in {"null", "string"}
    /\ deviceId.t = "string" => deviceId.s # <<>>
    /\ \A i \in Entries("exec") :
          trace[i].v = Addressed(pre.deviceId, trace[i].command)
    /\ pc \in {"exec", "all", "fs", "timer"} => deviceId = pre.deviceId

C3_DeviceIdStep ==
    /\ pc = "idle" => pre'.deviceId = deviceId
    /\ deviceId' # deviceId =>
          /\ op'.name = "autoConnect"
          /\ pc' = "done"
          /\ result'.st = "ok"
          /\ deviceId' = result'.v

\* C3 as one formula: the dispatch state always holds and every step keeps
\* the device id unless it is a successful autoConnect.
C3_AddressedToTarget == [] C3_DispatchState /\ [][C3_DeviceIdStep]_vars

\* a command is dispatched to the device an earlier autoConnect chose
C3_Witness ==
    /\ pre.deviceId = Str(<<"dev2">>)
    /\ op.name = "tap"
    /\ Entries("exec") # {}

\* the texts of the caller that the operation o embeds in its commands
EmbeddedTexts(o) ==
    CASE o.name = "executeShell" -> {o.a[1].s}
      [] o.name = "openUrl" -> {o.a[1].s}
      [] o.name = "typeText" -> {ReplaceAll(o.a[1].s, SP, <<"%s">>)}
      [] o.name \in {"pullFile", "pushFile"} -> {o.a[1].s, o.a[2].s}
      [] o.name = "takeScreenshot" /\ o.a[1].t = "string" -> {o.a[1].s}
      [] OTHER -> {}

\* C4: every command that an operation embedding a (non-empty) caller text
\* dispatches holds that text in the form the sanitizer gives it, either in
\* the command handed to executeCommand or in the device-shell command
\* handed to executeShell.
C4_CallerTextIsQuoted ==
    \A i \in Entries("exec") : \A s \in EmbeddedTexts(op) \ {<<>>} :
        \/ Includes(trace[i].command, Quoted(s))
        \/ Includes(trace[i].shell, Quoted(s))

\* C5: a line made of a command word and two arguments, the first one the
\* sanitizer's output for s, is read by the shell as one command whose
\* words are the command word, s and the second argument.
C5_OneArgumentNothingElse ==
    ret.st = "ok" =>
        ShellParse(<<"pull", SP>> \o ret.v \o <<SP>> \o <<SQ, "b", SQ>>)
            = [closed |-> TRUE, cmds |-> << << <<"pull">>, arg.s, <<"b">> >> >>]

\* C6: for a string s the sanitizer returns a quote, s with each quote
\* replaced by '\'' and a closing quote, nothing before or after; for any
\* other input it throws a validation error.
C6_ExactQuoting ==
    ret.st # "none" =>
        IF arg.t = "string"
        THEN ret = Ok(<<SQ>> \o ReplaceAll(arg.s, SQ, <<SQ, BS, SQ, SQ>>) \o <<SQ>>)
        ELSE ret.st = "err" /\ ret.e.name = "Error"

\* negative, non-numeric, NaN or infinite
BadNumber(v) ==
    \/ v.t # "number"
    \/ v.k \in {"NaN", "Infinity"}
    \/ (v.k = "finite" /\ v.n < 0)

CoordinatesOf(o) ==
    IF o.name = "tap" THEN {o.a[1], o.a[2]} ELSE {o.a[1], o.a[2], o.a[3], o.a[4]}

\* C7: a tap or swipe with a bad coordinate is finished at once with a
\* validation error, has dispatched and emitted nothing, and the session
\* fields are what they were before the call.
C7_BadCoordinateRejected ==
    (op.name \in {"tap", "swipe"} /\ \E c \in CoordinatesOf(op) : BadNumber(c)) =>
        /\ pc = "done"
        /\ result.st = "err"
        /\ result.e.name = "Error"
        /\ trace = <<>>
        /\ deviceId = pre.deviceId
        /\ screenSize = pre.screenSize

\* swipe was called with NaN as its last coordinate and has been rejected
C7_Witness ==
    /\ op.name = "swipe"
    /\ op.a[4] = NaN
    /\ ~BadNumber(op.a[1])
    /\ pc = "done"
    /\ result.st = "err"

DurationOf(o) == IF o.name = "swipe" THEN o.a[5] ELSE o.a[1]

\* C8: an operation given a bad duration dispatches no command and, when
\* it is finished, has failed with a validation error.
C8_BadDurationDispatchesNothing ==
    (/\ op.name \in {"swipe", "scrollDown", "scrollUp", "wait"}
     /\ DurationOf(op).t # "undefined"
     /\ BadNumber(DurationOf(op))) =>
        /\ Entries("exec") = {}
        /\ pc = "done"
        /\ result.st = "err"
        /\ result.e.name = "Error"

\* the geometry that the size query's answer spells out
SizeIn(stdout) ==
    CASE Includes(stdout, <<"1", "0", "8", "0", "x", "1", "9", "2", "0">>) ->
           [t |-> "object", width |-> 1080, height |-> 1920]
      [] Includes(stdout, <<"7", "2", "0", "x", "1", "2", "8", "0">>) ->
           [t |-> "object", width |-> 720, height |-> 1280]
      [] Includes(stdout, <<"error ", "0", "x", "0">>) ->
           [t |-> "object", width |-> 0, height |-> 0]
      [] OTHER -> Null

\* C9: once a geometry is cached, getScreenSize without the refresh flag
\* dispatches nothing and returns the cached value; with the flag it
\* dispatches the size query, and when it succeeds the cache holds the
\* geometry of the new answer, which is also returned; a getScreenSize that
\* succeeded leaves a geometry cached.
C9_ScreenSizeCache ==
    op.name = "getScreenSize" =>
        /\ (~op.a[1] /\ pre.screenSize # Null) =>
              /\ pc = "done"
              /\ trace = <<>>
              /\ result = Ok(pre.screenSize)
              /\ screenSize = pre.screenSize
        /\ op.a[1] =>
              /\ Len(trace) >= 2
              /\ trace[2].k = "exec"
              /\ trace[2].shell = <<"wm size">>
        /\ (op.a[1] /\ pc = "done" /\ result.st = "ok") =>
              /\ screenSize = SizeIn(trace[3].out.stdout)
              /\ result.v = screenSize
        /\ (pc = "done" /\ result.st = "ok") => screenSize # Null

\* getScreenSize without the flag answered from a cache an earlier call filled
C9_Witness ==
    /\ op.name = "getScreenSize"
    /\ ~op.a[1]
    /\ pre.screenSize # Null
    /\ pc = "done"

\* C10: when enumeration succeeds with no record autoConnect fails with
\* 'No devices found'; with records none of which has status 'device' it
\* fails with 'No authorized devices found'.
C10_AutoConnectFailures ==
    (op.name = "autoConnect" /\ pc = "done" /\ trace[3].out.ok) =>
        LET records == ParseDevices(Trim(trace[3].out.stdout))
        IN  /\ records = <<>> =>
                  result = Thrown(Error(<<"No devices found">>))
            /\ (/\ records # <<>>
                /\ \A i \in 1..Len(records) : records[i].status # <<"device">>) =>
                  result = Thrown(Error(<<"No authorized devices found">>))

\* devices were listed, none authorized, and autoConnect failed so
C10_Witness ==
    /\ op.name = "autoConnect"
    /\ pc = "done"
    /\ trace[3].out.ok
    /\ Len(ParseDevices(Trim(trace[3].out.stdout))) = 2
    /\ result = Thrown(Error(<<"No authorized devices found">>))

\* C11: when the device list holds a record with status 'device',
\* autoConnect returns the id of the first such record in list order, the
\* session's device id is that id, and the call emitted exactly one
\* connected event, carrying that id.
C11_FirstActiveDeviceWins ==
    (op.name = "autoConnect" /\ pc = "done" /\ trace[3].out.ok) =>
        LET records == ParseDevices(Trim(trace[3].out.stdout))
        IN  \A i \in 1..Len(records) :
                (/\ records[i].status = <<"device">>
                 /\ \A j \in 1..(i - 1) : records[j].status # <<"device">>) =>
                    /\ result = Ok(Str(records[i].id))
                    /\ deviceId = Str(records[i].id)
                    /\ Cardinality(Entries("connected")) = 1
                    /\ \A c \in Entries("connected") : trace[c].v = Str(records[i].id)

\* two devices are authorized, dev2 is listed first, and autoConnect took it
C11_Witness ==
    /\ op.name = "autoConnect"
    /\ pc = "done"
    /\ trace[3].out.ok
    /\ Len(ParseDevices(Trim(trace[3].out.stdout))) = 2
    /\ ParseDevices(Trim(trace[3].out.stdout))[1].id = <<"dev2">>
    /\ ParseDevices(Trim(trace[3].out.stdout))[2] = [id |-> <<"dev1">>, status |-> <<"device">>]
    /\ result = Ok(Str(<<"dev2">>))

\* the device-shell query has been dispatched and has ended in this call
Answered(query) ==
    \E i \in Entries("exit") : trace[trace[i].at].shell = <<query>>

\* how the device-shell query ended in the current call
AnswerTo(property) ==
    trace[CHOOSE i \in Entries("exit") :
              trace[trace[i].at].shell = <<property>>].out

\* the text field of the snapshot that the answer out stands for
TextField(out) == IF out.ok THEN Trim(out.stdout) ELSE <<"unknown">>

\* the SDK level that the answer out stands for
LevelField(out) ==
    IF out.ok /\ Trim(out.stdout) # <<>>
              /\ \A i \in 1..Len(Trim(out.stdout)) : Trim(out.stdout)[i] \in Digits
    THEN Whole(ParseDigits(Trim(out.stdout), 0))
    ELSE Whole(0)

\* C12: however its four property queries end, getDeviceInfo finishes with
\* a snapshot, never an error: a text field is 'unknown' when its query
\* failed and the query's trimmed output otherwise, the SDK level is the
\* number its query printed and 0 when the query failed or printed no
\* number, each field decided by its own query only.
C12_DeviceInfoNeverFails ==
    (op.name = "getDeviceInfo" /\ pc = "done") =>
        /\ result.st = "ok"
        /\ \A q \in {"getprop ro.product.manufacturer", "getprop ro.product.model",
                      "getprop ro.build.version.release",
                      "getprop ro.build.version.sdk"} : Answered(q)
        /\ result.v.manufacturer = TextField(AnswerTo("getprop ro.product.manufacturer"))
        /\ result.v.model = TextField(AnswerTo("getprop ro.product.model"))
        /\ result.v.androidVersion = TextField(AnswerTo("getprop ro.build.version.release"))
        /\ result.v.sdkVersion = LevelField(AnswerTo("getprop ro.build.version.sdk"))
        /\ result.v.deviceId = deviceId

\* the manufacturer and release queries failed, the other two succeeded
C12_Witness ==
    /\ op.name = "getDeviceInfo"
    /\ pc = "done"
    /\ ~AnswerTo("getprop ro.product.manufacturer").ok
    /\ ~AnswerTo("getprop ro.build.version.release").ok
    /\ result.v.manufacturer = <<"unknown">>
    /\ result.v.model = <<"Galaxy", SP, "S", "2", "1">>
    /\ result.v.sdkVersion = Whole(33)

\* the package that an answer to one of the dumps names
PackageIn(stdout) ==
    CASE Includes(stdout, <<"c", "o", "m", ".", "e", "x", ".", "a", "p", "p">>) ->
           Str(<<"c", "o", "m", ".", "e", "x", ".", "a", "p", "p">>)
      [] Includes(stdout, <<SP, "o", "r", "g", ".", "b", "_", "2", "/">>) ->
           Str(<<"o", "r", "g", ".", "b", "_", "2">>)
      [] OTHER -> Null

\* C13: getCurrentPackage never fails; when its first query failed and the
\* second one succeeded with an answer that names a package, the result is
\* that package; when both failed the result is null.
C13_PackageFallback ==
    (op.name = "getCurrentPackage" /\ pc = "done") =>
        /\ result.st = "ok"
        /\ ~trace[3].out.ok =>
              /\ Answered("dumpsys window | grep mCurrentFocus")
              /\ LET second == AnswerTo("dumpsys window | grep mCurrentFocus")
                 IN  /\ (second.ok /\ PackageIn(second.stdout) # Null) =>
                           result.v = PackageIn(second.stdout)
                     /\ ~second.ok => result.v = Null

\* the first query timed out and the second one named org.b_2
C13_Witness ==
    /\ op.name = "getCurrentPackage"
    /\ pc = "done"
    /\ ~trace[3].out.ok
    /\ AnswerTo("dumpsys window | grep mCurrentFocus").ok
    /\ result = Ok(Str(<<"o", "r", "g", ".", "b", "_", "2">>))

\* the entries of the trace that start something and those that end it
Starts == Entries("fs") \cup Entries("exec")
Ends == Entries("fsexit") \cup Entries("exit")

EndedWell(e) == IF e.k = "exit" THEN e.out.ok ELSE e.ok

\* which step of takeScreenshot the trace entry e starts
StepOf(e) ==
    CASE e.k = "fs" /\ e.v = <<"mkdir", SP>> \o screenshotDir -> "mkdir"
      [] e.k = "exec" /\ e.shell = <<"screencap -p ">> \o remotePathOf(op.a[1]) ->
           "capture"
      [] e.k = "exec" /\ e.command = <<"pull", SP>> \o remotePathOf(op.a[1])
                                       \o <<SP>> \o localPathOf(op.a[1]) -> "pull"
      [] e.k = "exec" /\ e.shell = <<"rm ">> \o remotePathOf(op.a[1]) -> "delete"
      [] OTHER -> "other"

IsStart(e) == e.k \in {"fs", "exec"}

\* C14: what takeScreenshot has started so far is a prefix of mkdir,
\* capture, pull, delete (of mkdir, capture, pull when cleanup is off);
\* whenever something is started everything started before has ended and
\* ended well; and once the pull has succeeded the call ends returning the
\* local path, however the delete ends.
C14_ScreenshotStepsInOrder ==
    op.name = "takeScreenshot" =>
        LET started == SelectSeq(trace, IsStart)
            plan == IF op.a[2] THEN <<"mkdir", "capture", "pull", "delete">>
                    ELSE <<"mkdir", "capture", "pull">>
        IN  /\ Len(started) <= Len(plan)
            /\ \A n \in 1..Len(started) : StepOf(started[n]) = plan[n]
            /\ \A i \in Starts :
                  /\ \A j \in Ends : j < i => EndedWell(trace[j])
                  /\ Cardinality({j \in Starts : j < i})
                        = Cardinality({j \in Ends : j < i})
            /\ (/\ pc = "done"
                /\ \E j \in Entries("exit") :
                      StepOf(trace[trace[j].at]) = "pull" /\ trace[j].out.ok) =>
                  result = Ok(Str(localPathOf(op.a[1])))

\* the remote copy could not be deleted and the call returned the local path
C14_Witness ==
    /\ op.name = "takeScreenshot"
    /\ pc = "done"
    /\ \E j \in Entries("exit") :
          StepOf(trace[trace[j].at]) = "delete" /\ ~trace[j].out.ok
    /\ result = Ok(Str(<<"screenshots", "/", "a">>))

\* the ends of the capture and pull commands of takeScreenshot that failed
FailedTransfers ==
    {j \in Entries("exit") :
        /\ StepOf(trace[trace[j].at]) \in {"capture", "pull"}
        /\ ~trace[j].out.ok}

\* C15: when the capture or the pull of takeScreenshot has failed, the call
\* ends with an ADBError 'Failed to take screenshot' for the command
\* 'screencap' whose originalError is the error the failed command was
\* rejected with (which holds the cause the process failed with); the result
\* is not that inner error itself, and not a path.
C15_ScreenshotFailureWrapped ==
    (op.name = "takeScreenshot" /\ pc = "done") =>
        \A j \in FailedTransfers :
            /\ result.st = "err"
            /\ result.e.name = "ADBError"
            /\ result.e.message = <<"Failed to take screenshot">>
            /\ result.e.command = <<"screencap">>
            /\ trace[j + 2].k = "settled"
            /\ result.e.originalError = trace[j + 2].r.e
            /\ result.e.originalError.originalError = trace[j].out.error
            /\ result.e # trace[j + 2].r.e

\* the capture succeeded, the pull failed, and the call failed
C15_Witness ==
    /\ op.name = "takeScreenshot"
    /\ pc = "done"
    /\ \E j \in FailedTransfers : StepOf(trace[trace[j].at]) = "pull"
    /\ result.st = "err"

\* C16: pushFile dispatches, and emits command_executed, only after the
\* access check of its local source has succeeded, and when that check
\* fails the call has failed with nothing dispatched or emitted; pullFile
\* dispatches only after the directory of its local path has been made.
C16_LocalChecksFirst ==
    /\ op.name = "pushFile" =>
          /\ \A i \in Entries("exec") \cup Entries("command_executed") :
                /\ trace[1] = [k |-> "fs", v |-> <<"access", SP>> \o op.a[1].s]
                /\ trace[2] = [k |-> "fsexit", ok |-> TRUE]
                /\ i > 2
          /\ (\E j \in Entries("fsexit") : ~trace[j].ok) =>
                /\ Entries("exec") = {}
                /\ Entries("command_executed") = {}
                /\ pc = "done"
                /\ result.st = "err"
    /\ op.name = "pullFile" =>
          \A i \in Entries("exec") \cup Entries("command_executed") :
              /\ trace[1] = [k |-> "fs", v |-> <<"mkdir", SP>> \o Dirname(op.a[2].s)]
              /\ trace[2] = [k |-> "fsexit", ok |-> TRUE]
              /\ i > 2

\* the source of a push is missing: the call failed and nothing was sent
C16_Witness ==
    /\ op.name = "pushFile"
    /\ pc = "done"
    /\ Len(trace) = 2
    /\ trace[2] = [k |-> "fsexit", ok |-> FALSE]
    /\ result.st = "err"

\* the error e is about the command whose process ended at trace entry j:
\* it names that command (as handed to executeCommand, or the whole line)
\* and holds the error the process failed with
NamesFailure(e, j) ==
    /\ ~trace[j].out.ok
    /\ e.command \in {trace[trace[j].at].command, trace[trace[j].at].v}
    /\ e.originalError = trace[j].out.error

\* C17: an ADBError that a call fails with names a command of the call
\* that failed, holds the error that command's process failed with, and
\* has been emitted in an error event of the call.
C17_ErrorNamesCommandAndIsEmitted ==
    (pc = "done" /\ result.st = "err" /\ result.e.name = "ADBError") =>
        /\ \E j \in Entries("exit") : NamesFailure(result.e, j)
        /\ \E i \in Entries("error") : trace[i].v = result.e

\* commands of the current call whose process has started and not ended
InFlight == Cardinality(Entries("exec")) - Cardinality(Entries("exit"))

\* C18: outside getDeviceInfo at most one command is in flight; nothing is
\* in flight when a call starts or has ended, so the commands of a call
\* all come after those of the call before; getDeviceInfo has at most four
\* in flight, all started before any of them ends, and its result is fixed
\* by what each query answered, in whatever order the answers came.
C18_OneCommandAtATime ==
    /\ op.name # "getDeviceInfo" => InFlight \in {0, 1}
    /\ pc \in {"idle", "done"} => InFlight = 0
    /\ pc = "idle" => trace = <<>>
    /\ op.name = "getDeviceInfo" =>
          /\ InFlight \in 0..Len(getDeviceInfoStart.branches)
          /\ \A i \in Entries("exec"), j \in Entries("exit") : i < j
          /\ pc = "done" =>
                /\ result.st = "ok"
                /\ Cardinality(Entries("exit")) = Len(getDeviceInfoStart.branches)
                /\ result.v =
                      [t |-> "object",
                       manufacturer |->
                           TextField(AnswerTo("getprop ro.product.manufacturer")),
                       model |-> TextField(AnswerTo("getprop ro.product.model")),
                       androidVersion |->
                           TextField(AnswerTo("getprop ro.build.version.release")),
                       sdkVersion |->
                           LevelField(AnswerTo("getprop ro.build.version.sdk")),
                       deviceId |-> pre.deviceId]

\* four queries were in flight together; the last one started ended first,
\* the first one last, and their answers differ
C18_Witness ==
    /\ op.name = "getDeviceInfo"
    /\ pc = "done"
    /\ Entries("exec") = {2, 4, 6, 8}
    /\ trace[9].k = "exit"
    /\ trace[9].at = 8
    /\ trace[9].out.ok
    /\ \E j \in Entries("exit") :
          /\ \A m \in Entries("exit") : m <= j
          /\ trace[j].at = 2
          /\ ~trace[j].out.ok

FailedExits == {j \in Entries("exit") : ~trace[j].out.ok}

\* within the call, no command line that failed is started again
NeverRetried ==
    \A j \in FailedExits : \A i \in Entries("exec") :
        i > j => trace[i].v # trace[trace[j].at].v

\* the failure at trace entry j has ended the call with an error that is,
\* or holds, the one the command was rejected with
Propagated(j) ==
    /\ pc = "done"
    /\ result.st = "err"
    /\ trace[j + 2].k = "settled"
    /\ \/ result.e = trace[j + 2].r.e
       \/ (result.e.name = "ADBError" /\ result.e.originalError = trace[j + 2].r.e)

\* the two cases where a failure is named as not reaching the caller
NamedCase(j) ==
    \/ op.name = "getCurrentPackage"
    \/ op.name = "takeScreenshot" /\ StepOf(trace[trace[j].at]) = "delete"

\* C19 as stated: no failed command is started again, and every failure
\* reaches the caller unless it is one of the current-package queries or
\* the deletion of the remote screenshot.
C19_NoRetryTwoExceptions ==
    /\ NeverRetried
    /\ \A j \in FailedExits : ~NamedCase(j) => Propagated(j)

\* C19 amended: no failed command is started again, and every failure
\* reaches the caller unless it is one of the current-package queries, the
\* deletion of the remote screenshot, or a property query of getDeviceInfo.
C19_NoRetryThreeExceptions ==
    /\ NeverRetried
    /\ \A j \in FailedExits :
          ~(NamedCase(j) \/ op.name = "getDeviceInfo") => Propagated(j)
    /\ \A j \in FailedExits :
          (pc = "done" /\ (NamedCase(j) \/ op.name = "getDeviceInfo")) =>
              result.st = "ok"

\* a property query of getDeviceInfo timed out, was not asked again, and
\* the call returned a snapshot
C19_Witness ==
    /\ op.name = "getDeviceInfo"
    /\ pc = "done"
    /\ FailedExits # {}
    /\ Cardinality(Entries("exec")) = Len(getDeviceInfoStart.branches)
    /\ result.st = "ok"

\* C20: the cached geometry is unset, or its width and height are both
\* positive integers.
C20_GeometryPositive ==
    \/ screenSize = Null
    \/ /\ screenSize.width \in Nat \ {0}
       /\ screenSize.height \in Nat \ {0}

\* C21: whatever configuration the session is constructed with, its
\* timeout is a number greater than 0, and 30000 when none is given; and
\* constructing has started no file-system call and no command.
C21_TimeoutPositive ==
    ret.st = "ok" =>
        /\ ret.v.timeout.t = "number"
        /\ ret.v.timeout.k = "finite"
        /\ ret.v.timeout.n > 0
        /\ arg.options.timeout = Undefined => ret.v.timeout = Whole(30000)
        /\ trace = <<>>
        /\ pc = "idle"

\* stderr is worth a warning: not empty and without the token WARNING
Reportable(stderr) ==
    /\ stderr # <<>>
    /\ \A n \in 1..Len(stderr) : stderr[n] # "WARNING"

\* C22: after a process ended well, the next entry is a warning event with
\* the raw stderr exactly when stderr is reportable, and the command then
\* settles to the trimmed stdout either way; a warning event occurs nowhere
\* else; a directly called executeCommand returns that trimmed stdout.
C22_WarningIffStderr ==
    /\ \A i \in Entries("exit") :
          trace[i].out.ok =>
              /\ Len(trace) > i
              /\ Reportable(trace[i].out.stderr) <=>
                    trace[i + 1] = [k |-> "warning", v |-> trace[i].out.stderr]
              /\ LET n == IF Reportable(trace[i].out.stderr) THEN i + 2 ELSE i + 1
                 IN  /\ Len(trace) >= n
                     /\ trace[n] = [k |-> "settled", r |-> Ok(Trim(trace[i].out.stdout))]
    /\ \A w \in Entries("warning") :
          /\ w > 1
          /\ trace[w - 1].k = "exit"
          /\ trace[w - 1].out.ok
    /\ (op.name = "executeCommand" /\ pc = "done" /\ trace[3].out.ok) =>
          result = Ok(Trim(trace[3].out.stdout))

\* a command wrote to stderr, a warning was emitted, and the call returned
\* the trimmed output
C22_Witness ==
    /\ op.name = "executeCommand"
    /\ pc = "done"
    /\ trace[3].out.ok
    /\ trace[3].out.stderr = <<"some error">>
    /\ trace[4].k = "warning"
    /\ result = Ok(<<"output">>)

\* the caller's input to the operation o is malformed: text that is no
\* string, a URL that is no string or blank, a package name other than a
\* dotted identifier, a path that is missing
Malformed(o) ==
    CASE o.name = "typeText" -> o.a[1].t # "string"
      [] o.name = "openUrl" ->
           \/ o.a[1].t # "string"
           \/ \A n \in 1..Len(o.a[1].s) : o.a[1].s[n] \in {SP, TAB, NL}
      [] o.name \in {"forceStop", "launchApp", "clearAppData"} ->
           o.a[1] # Str(<<"c", "o", "m", ".", "a">>)
      [] o.name \in {"pullFile", "pushFile"} ->
           \E n \in {1, 2} : o.a[n] \in {Null, Undefined, Str(<<>>)}
      [] OTHER -> FALSE

\* C23: an operation given malformed input has ended at once with an error
\* that is no ADBError and holds no command, and the call has dispatched
\* nothing, emitted nothing and touched no file.
C23_MalformedInputRejectedFirst ==
    Malformed(op) =>
        /\ pc = "done"
        /\ result.st = "err"
        /\ result.e.name = "Error"
        /\ "command" \notin DOMAIN result.e
        /\ trace = <<>>
        /\ deviceId = pre.deviceId
        /\ screenSize = pre.screenSize

\* forceStop was given a name that starts with a digit and has been rejected
C23_Witness ==
    /\ op.name = "forceStop"
    /\ op.a[1] = Str(<<"1", "a", ".", "b">>)
    /\ pc = "done"
    /\ result = Thrown(Error(<<"Invalid package name format">>))
    /\ trace = <<>>

\* the integer k with k <= v < k + 1, for a finite v >= 0
WholePart(v) == CHOOSE k \in 0..v.n : k * v.d <= v.n /\ v.n < (k + 1) * v.d

\* the decimal text of the whole part of v
WholeText(v) == ToString(WholePart(v))

\* C24: tap with finite, non-negative x and y has dispatched exactly one
\* command, the device-shell command 'input tap X Y' with X and Y the whole
\* parts of x and y.
C24_TapFloors ==
    (op.name = "tap" /\ ~BadNumber(op.a[1]) /\ ~BadNumber(op.a[2])) =>
        /\ Cardinality(Entries("exec")) = 1
        /\ \A i \in Entries("exec") :
              trace[i].shell =
                  <<"input tap ", WholeText(op.a[1]), SP, WholeText(op.a[2])>>

\* tap(1.7, 0) has dispatched 'input tap 1 0'
C24_Witness ==
    /\ op.name = "tap"
    /\ op.a = <<Num(17, 10), Whole(0)>>
    /\ Entries("exec") = {2}
    /\ trace[2].shell = <<"input tap ", "1", SP, "0">>

\* the duration a swipe runs with
SwipeDuration(d) == IF d = Undefined THEN Whole(300) ELSE d

\* C25: swipe with valid coordinates and duration has dispatched exactly
\* one command, which holds the text 'input touchscreen swipe X1 Y1 X2 Y2 D'
\* of the whole parts, D being 300 when no duration is given.
C25_SwipeText ==
    (/\ op.name = "swipe"
     /\ \A n \in 1..4 : ~BadNumber(op.a[n])
     /\ ~BadNumber(SwipeDuration(op.a[5]))) =>
        /\ Cardinality(Entries("exec")) = 1
        /\ \A i \in Entries("exec") :
              Includes(trace[i].shell,
                       <<"input touchscreen swipe ", WholeText(op.a[1]), SP,
                         WholeText(op.a[2]), SP, WholeText(op.a[3]), SP,
                         WholeText(op.a[4]), SP,
                         WholeText(SwipeDuration(op.a[5]))>>)

\* the commands of the current call that are swipes, and size queries
SwipesSent ==
    {i \in Entries("exec") :
        /\ trace[i].shell # <<>>
        /\ Head(trace[i].shell) \in {"input swipe ", "input touchscreen swipe "}}

SizeQueriesSent == {i \in Entries("exec") : trace[i].shell = <<"wm size">>}

\* C26: scrollDown and scrollUp dispatch the size query exactly when no
\* geometry was cached at the call, and nothing but that query and a swipe;
\* once the geometry is known (and the duration valid) exactly one swipe has
\* been dispatched, after the query, with x = floor(width / 2) at both ends
\* and y going from floor(0.8 height) to floor(0.2 height) for scrollDown
\* and the other way for scrollUp; without a geometry no swipe is sent.
C26_ScrollGeometry ==
    op.name \in {"scrollDown", "scrollUp"} =>
        LET d == IF op.a[1] = Undefined THEN Whole(400) ELSE op.a[1]
            x == ToString(screenSize.width \div 2)
            top == ToString((2 * screenSize.height) \div 10)
            bottom == ToString((8 * screenSize.height) \div 10)
        IN  /\ SizeQueriesSent # {} <=> pre.screenSize = Null
            /\ Cardinality(SizeQueriesSent) <= 1
            /\ Entries("exec") = SizeQueriesSent \cup SwipesSent
            /\ (screenSize = Null \/ BadNumber(d)) => SwipesSent = {}
            /\ (screenSize # Null /\ ~BadNumber(d)) =>
                  /\ Cardinality(SwipesSent) = 1
                  /\ \A i \in SwipesSent :
                        /\ \A q \in SizeQueriesSent : q < i
                        /\ Tail(trace[i].shell) =
                              IF op.name = "scrollDown"
                              THEN <<x, SP, bottom, SP, x, SP, top, SP, WholeText(d)>>
                              ELSE <<x, SP, top, SP, x, SP, bottom, SP, WholeText(d)>>

\* scrollDown with nothing cached asked for the size, got 1080x1920, and
\* swiped from 540,1536 to 540,384
C26_Witness ==
    /\ op.name = "scrollDown"
    /\ pre.screenSize = Null
    /\ SizeQueriesSent = {2}
    /\ \E i \in SwipesSent :
          Tail(trace[i].shell)
              = <<"540", SP, "1536", SP, "540", SP, "384", SP, "400">>

IsNonBlank(line) == \E n \in 1..Len(line) : line[n] \notin {SP, TAB, NL}

\* the text of line between the tabs number n - 1 and n (or its ends)
RECURSIVE Field(_, _)
Field(line, n) ==
    LET tabs == {m \in 1..Len(line) : line[m] = TAB}
        first == CHOOSE m \in tabs : \A o \in tabs : m <= o
    IN  IF n = 1
        THEN (IF tabs = {} THEN line ELSE SubSeq(line, 1, first - 1))
        ELSE (IF tabs = {} THEN <<>>
              ELSE Field(SubSeq(line, first + 1, Len(line)), n - 1))

\* the record that a line of the device list stands for
RecordOf(line) ==
    [id |-> Trim(Field(line, 1)),
     status |-> IF Trim(Field(line, 2)) = <<>> THEN <<"unknown">>
                ELSE Trim(Field(line, 2))]

\* C27: when the device-list command succeeds, getDevices returns, for the
\* non-blank lines after the first line of the trimmed output and in their
\* order, one record each, with the text before the first tab as id and the
\* text after it as status, 'unknown' when there is none; no line, no record.
C27_EnumerationParsing ==
    (op.name = "getDevices" /\ pc = "done" /\ trace[3].out.ok) =>
        LET lines == SelectSeq(Tail(Split(Trim(trace[3].out.stdout), NL)), IsNonBlank)
        IN  /\ result.st = "ok"
            /\ Len(result.v) = Len(lines)
            /\ \A n \in 1..Len(lines) : result.v[n] = RecordOf(lines[n])
            /\ Trim(trace[3].out.stdout) = <<"List of devices attached">> =>
                  result.v = <<>>

\* two devices listed, the second without a status
C27_Witness ==
    /\ op.name = "getDevices"
    /\ pc = "done"
    /\ result = Ok(<< [id |-> <<"dev2">>, status |-> <<"unauthorized">>],
                      [id |-> <<"dev1">>, status |-> <<"unknown">>] >>)

\* the text holds digits, an x and digits in a row
HasSize(s) ==
    \E n \in 1..(Len(s) - 2) :
        s[n] \in Digits /\ s[n + 1] = "x" /\ s[n + 2] \in Digits

\* C28: when the size query succeeds with an answer that holds no
\* <digits>x<digits>, getScreenSize fails with 'Failed to parse screen
\* size' and the cached geometry is what it was before the call.
C28_ParseFailureKeepsCache ==
    (/\ op.name = "getScreenSize"
     /\ pc = "done"
     /\ trace # <<>>
     /\ trace[3].out.ok
     /\ ~HasSize(trace[3].out.stdout)) =>
        /\ result = Thrown(Error(<<"Failed to parse screen size">>))
        /\ screenSize = pre.screenSize

\* a refresh got an answer without a size and the cached geometry stayed
C28_Witness ==
    /\ op.name = "getScreenSize"
    /\ op.a[1]
    /\ pc = "done"
    /\ pre.screenSize # Null
    /\ trace[3].out.ok
    /\ trace[3].out.stdout = <<"invalid format">>
    /\ result.st = "err"
    /\ screenSize = pre.screenSize

\* the label occurs in the text
HasLabel(s, label) == \E n \in 1..Len(s) : s[n] = label

\* the label occurs in the text with the digits of n right after it
HasReading(s, label, n) ==
    \E a \in 1..Len(s), b \in 1..Len(s) :
        /\ s[a] = label
        /\ a < b
        /\ \A m \in (a + 1)..b : s[m] \in Digits
        /\ (b = Len(s) \/ s[b + 1] \notin Digits)
        /\ ParseDigits(SubSeq(s, a + 1, b), 0) = n

\* C29: when the battery query succeeds getBatteryInfo returns a reading:
\* each of level, status and health is null exactly when its label does not
\* occur in the output and otherwise the number that follows the label (0
\* for 0), and the temperature likewise, as a tenth of the number.
C29_BatteryParsing ==
    (op.name = "getBatteryInfo" /\ pc = "done" /\ trace[3].out.ok) =>
        LET out == trace[3].out.stdout
        IN  /\ result.st = "ok"
            /\ result.v.level = Null <=> ~HasLabel(out, "level: ")
            /\ result.v.status = Null <=> ~HasLabel(out, "status: ")
            /\ result.v.health = Null <=> ~HasLabel(out, "health: ")
            /\ result.v.temperature = Null <=> ~HasLabel(out, "temperature: ")
            /\ result.v.level # Null =>
                  HasReading(out, "level: ", result.v.level.n)
            /\ result.v.status # Null =>
                  HasReading(out, "status: ", result.v.status.n)
            /\ result.v.health # Null =>
                  HasReading(out, "health: ", result.v.health.n)
            /\ result.v.temperature # Null =>
                  \E n \in 0..1000 :
                      /\ HasReading(out, "temperature: ", n)
                      /\ result.v.temperature.n * 10 = n * result.v.temperature.d

\* the URLs whose purchase a timeout started
AutoPurchased ==
    {l.url : l \in {k \in log : k.e = "start" /\ k.by = "timer"}}

\* C30: with auto-buy enabled, however many URLs were added, the timeouts
\* start the purchase of at most one of them.
C30_OneAutoPurchase ==
    autoBuyEnabled => Cardinality(AutoPurchased) <= 1

\* the current-focus query has been dispatched in this call
FallbackSent ==
    \E i \in Entries("exec") : trace[i].shell = <<"dumpsys window | grep mCurrentFocus">>

\* the resumed-activity query of this call has ended, and ended in failure
PrimaryFailed ==
    /\ Len(trace) >= 3
    /\ trace[2].shell = <<"dumpsys activity activities | grep mResumedActivity">>
    /\ trace[3].k = "exit"
    /\ ~trace[3].out.ok

\* C31: getCurrentPackage never fails; at every moment of the call the
\* current-focus query has been dispatched exactly when the resumed-activity
\* query has failed; and when the resumed-activity query succeeds with an
\* answer that names no package the result is null, with no second query.
C31_FallbackIffPrimaryFailed ==
    op.name = "getCurrentPackage" =>
        /\ FallbackSent <=> PrimaryFailed
        /\ pc = "done" =>
              /\ result.st = "ok"
              /\ (trace[3].out.ok /\ PackageIn(trace[3].out.stdout) = Null) =>
                    /\ result.v = Null
                    /\ Cardinality(Entries("exec")) = 1

\* the first query answered 'mFocus=null': null, and nothing else was asked
C31_Witness ==
    /\ op.name = "getCurrentPackage"
    /\ pc = "done"
    /\ trace[3].out.ok
    /\ trace[3].out.stdout = <<"m", "F", "o", "c", "u", "s", "=", "n", "u", "l", "l">>
    /\ result = Ok(Null)
    /\ ~FallbackSent

\* C32: an autoConnect that failed, whether the enumeration failed, listed
\* no device or listed no authorized one, left the target device id and the
\* cached geometry as they were when it was called and emitted no connected
\* event.
C32_FailedConnectChangesNothing ==
    (op.name = "autoConnect" /\ pc = "done" /\ result.st = "err") =>
        /\ deviceId = pre.deviceId
        /\ screenSize = pre.screenSize
        /\ Entries("connected") = {}

\* a session with a target and a cached geometry listed only an unauthorized
\* device, and autoConnect failed
C32_Witness ==
    /\ op.name = "autoConnect"
    /\ pc = "done"
    /\ pre.deviceId # Null
    /\ pre.screenSize # Null
    /\ trace[3].out.ok
    /\ Len(ParseDevices(Trim(trace[3].out.stdout))) >= 1
    /\ ParseDevices(Trim(trace[3].out.stdout))[1].id # pre.deviceId.s
    /\ result = Thrown(Error(<<"No authorized devices found">>))

\* the purchases of listed URLs started so far
StartsLogged == {l \in log : l.e = "start"}

\* C33: a purchase that a timeout started is the purchase of the URL the
\* timeout was set for, whatever was added or deleted in the meantime.
C33_TimerBuysItsUrl ==
    \A l \in StartsLogged : l.by = "timer" => l.url = l.sched

\* C34: the purchase of a list item is started at most once, by its timeout
\* or by a manual buy request, never by both and never twice.
C34_StartedAtMostOnce ==
    \A l \in StartsLogged, k \in StartsLogged : l.item = k.item => l = k

\* C36: at most one purchase is in progress at any time.
C36_OnePurchaseAtATime ==
    Cardinality(flows) <= 1

\* C37: the step that finishes the purchase of a listed URL changes only
\* list items that hold that URL, and no rejection goes unhandled in it.
C37_StatusGoesToThePurchasedItem ==
    [][\A f \in flows :
          (f \notin flows' /\ f.by # "direct") =>
              /\ [e |-> "unhandled"] \in log' => [e |-> "unhandled"] \in log
              /\ Len(urls') = Len(urls)
              /\ \A i \in 1..Len(urls) : urls'[i] # urls[i] => urls[i].url = f.url]_vars

\* the index is a whole number that names an item of the list
IsListIndex(index) ==
    index.k = "finite" /\ index.n >= 0 /\ index.n < Len(urls)

\* C38: DELETE /urls/:index and POST /urls/:index/buy with an index that
\* names no item of the list respond 404, leave the list and the timers as
\* they are and start no purchase.
C38_BadIndexIsNotFound ==
    [][\A index \in IndexParams :
          (~IsListIndex(index) /\ (deleteUrls(index) \/ postUrlsBuy(index))) =>
              /\ res'.status = 404
              /\ UNCHANGED <<urls, activeTimers, timeouts, flows, log>>]_vars

\* the URL is listed with auto-buy enabled and no purchase of its item has
\* been triggered: the item is pending and no purchase of it was started
Waiting(u) ==
    /\ autoBuyEnabled
    /\ \E i \in 1..Len(urls) :
          /\ urls[i].url = u
          /\ urls[i].status = "pending"
          /\ \A l \in StartsLogged : l.item # urls[i].addedAt

\* C35: with timeouts firing fairly, a listed URL does not wait for ever: it
\* is deleted, bought manually, or its purchase is triggered by its timeout.
C35_EveryListedUrlIsTriggered ==
    \A u \in {url.s : url \in {v \in SchedulerUrls : Truthy(v) /\ IsUrl(v.s)}} :
        []<>~Waiting(u)

\* C39: for every domain, in whatever case it is written, hasHandler says
\* true exactly when getHandler gives a handler.
C39_HasHandlerAgrees ==
    ret.st = "ok" => (ret.v.hasHandler <=> ret.v.handler # Null)

\* steps of the running buyItem that were awaited and failed
FailedSteps == {i \in 1..Len(arg.done) : ~arg.done[i]}

\* C40: buyItem never rejects; it returns true or false, true only after
\* every step of its sequence succeeded, false only after a step failed;
\* a failed step is the last one it started, so that nothing more (the
\* Confirm Purchase tap included) goes to the device after a failure.
C40_BuyItemAllOrNothing ==
    /\ ret.st # "err"
    /\ ret.st = "ok" => ret.v \in {True, False}
    /\ ret = Ok(True) =>
          /\ Len(arg.done) = Len(buyItemSteps(arg.handler))
          /\ FailedSteps = {}
    /\ ret = Ok(False) => FailedSteps # {}
    /\ FailedSteps # {} =>
          /\ FailedSteps = {Len(arg.done)}
          /\ ret.st = "ok"
          /\ pc = "idle" /\ trace = <<>>
    /\ (pc # "idle" /\ op \in ConfirmPurchase) => FailedSteps = {}

=============================================================================
